---------------------------- MODULE Spec2Model ----------------------------
(* VideoActionViewer: the annotation-file merger (file type detection,      *)
(* batch detection and mergeAnnotationData).                                *)
(*                                                                          *)
(* A File is identified by its handle, a positive integer; the handle also  *)
(* stands for file.name. Confidences are in hundredths (0.95 is 95).        *)
(* An optional value (T | undefined) is a sequence of length at most one.   *)
EXTENDS Integers, Sequences, FiniteSets, TLC

\* Longest detectedFiles list handed to mergeAnnotationData.
MaxFiles == 3

\* Longest files list handed to batchDetectFileTypes.
MaxBatch == 3

None == <<>>
Some(v) == <<v>>

FileTypes ==
    {"video", "person_tracking", "speech_recognition", "speaker_diarization",
     "scene_detection", "face_analysis", "complete_results", "audio", "unknown"}

\* The file types whose case of the switch awaits an external parser.
DecodedTypes ==
    {"person_tracking", "face_analysis", "speech_recognition",
     "speaker_diarization", "scene_detection"}

\* Lengths of the arrays a parser may return: empty, or not.
PayloadLengths == {0, 1}

\* An array of n annotations read from file f.
Payload(f, n) == [k \in 1..n |-> f]

\* What awaiting a parser on file f yields: a rejection, or an array.
ParserOutcomes(f) ==
    {[ok |-> FALSE, data |-> <<>>]}
        \cup {[ok |-> TRUE, data |-> Payload(f, n)] : n \in PayloadLengths}

\* One section of pipeline_results: missing, or {results, processing_time}.
NoSection == [present |-> FALSE, results |-> <<>>, processing_time |-> 0]
Sections(f) ==
    {NoSection}
        \cup {[present |-> TRUE, results |-> Payload(f, n), processing_time |-> 1] :
                n \in PayloadLengths}

\* The JSON texts a complete_results file f may hold: one that parseCompleteResults
\* cannot read (not JSON, or without pipeline_results), or a bundle.
BundleContents(f) ==
    {[readable |-> FALSE, person |-> NoSection, face |-> NoSection,
      scene |-> NoSection, config |-> Some(f), total_duration |-> Some(f)]}
        \cup [readable : {TRUE}, person : Sections(f), face : Sections(f),
              scene : Sections(f), config : {Some(f)},
              total_duration : {Some(f)}]

VARIABLES
    detectedFiles,  \* the argument of mergeAnnotationData
    bundleText,     \* what the complete_results file holds, if there is one
    pc,             \* where the call is: "start", "loop", "done", "failed"
    idx,            \* position of the for-of loop in detectedFiles
    acc,            \* the function's local accumulators
    outcome,        \* what each file's parser or extractor yielded, once awaited
    probeOk,        \* whether extractVideoInfo resolved, once awaited
    result,         \* the resolved ParseResult, if any
    error           \* the rejection's message, if any

VARIABLES
    files,          \* the argument of batchDetectFileTypes
    task,           \* where each detectFileType call is: "reading", "sniffed", "settled"
    promises,       \* what each detectFileType promise resolved to, if settled
    settleOrder,    \* the file handles in the order their promises settled
    batchResult     \* the array batchDetectFileTypes resolved to, if any

VARIABLES
    inputFile,      \* the argument of one detectFileType call
    detected        \* the DetectedFile that call resolved to, if it has

VARIABLES
    classified,     \* the argument of validateFileSet and getFilesSummary
    validation,     \* what validateFileSet returned, if called
    summary         \* what getFilesSummary returned, if called

\* The state of the CreateNewJob component and of one handleSubmitJobs call.
VARIABLES
    currentStep,        \* useState(1)
    selectedFiles,      \* useState<File[]>([])
    selectedPipelines,  \* useState of the enabled pipelines' names
    isSubmitting,       \* useState(false)
    submitError,        \* useState<string | null>(null)
    submitSuccess,      \* useState<string[]>([])
    run,                \* the locals of the handleSubmitJobs call under way
    requests,           \* the submitJob calls that call has made, in order
    redirect            \* the setTimeout of navigate('/create/jobs')

mergeVars ==
    <<detectedFiles, bundleText, pc, idx, acc, outcome, probeOk, result, error>>
batchVars == <<files, task, promises, settleOrder, batchResult>>
detectVars == <<inputFile, detected>>
viewVars == <<classified, validation, summary>>
wizardVars ==
    <<currentStep, selectedFiles, selectedPipelines, isSubmitting, submitError,
      submitSuccess, run, requests, redirect>>
vars == <<mergeVars, batchVars, detectVars, viewVars, wizardVars>>

\* The variables a call leaves alone because they belong to other calls.
notMergeVars == <<batchVars, detectVars, viewVars, wizardVars>>
notBatchVars == <<mergeVars, detectVars, viewVars, wizardVars>>
notDetectVars == <<mergeVars, batchVars, viewVars, wizardVars>>
notViewVars == <<mergeVars, batchVars, detectVars, wizardVars>>
notWizardVars == <<mergeVars, batchVars, detectVars, viewVars>>

NoVideoError == "No video file provided"
ProbeError == "Failed to load video metadata"

\* The locals of mergeAnnotationData as declared at its top.
InitAcc ==
    [warnings |-> <<>>,
     pipelinesFound |-> <<>>,
     videoFile |-> None,
     audioFile |-> None,
     personTracking |-> <<>>,
     speechRecognition |-> <<>>,
     speakerDiarization |-> <<>>,
     sceneDetection |-> <<>>,
     faceAnalysis |-> <<>>,
     processingConfig |-> None,
     processingTime |-> None,
     totalDuration |-> None,
     processedFiles |-> 0,
     progress |-> <<>>,
     invoked |-> <<>>]

\* detectedFiles.find(f => f.type === 'complete_results'): the first one, if any.
FindCompleteResults(list) ==
    LET hits == {i \in 1..Len(list) : list[i].type = "complete_results"}
    IN  IF hits = {} THEN None
        ELSE Some(CHOOSE i \in hits : \A j \in hits : i <= j)

\* onProgress?.(stage, progress, total)
OnProgress(a, stage, progress, total) ==
    [a EXCEPT !.progress =
        Append(@, [stage |-> stage, progress |-> progress, total |-> total])]


\* ParseCompleteResults that takes the person section's processing_time for
\* the total.
ParseCompleteResults_PersonTimeOnly(b) ==
    IF ~b.readable
    THEN [ok |-> FALSE, personTracking |-> <<>>, faceAnalysis |-> <<>>,
          sceneDetection |-> <<>>, config |-> b.config, processingTime |-> 0,
          totalDuration |-> b.total_duration]
    ELSE [ok |-> TRUE,
          personTracking |-> b.person.results,
          faceAnalysis |-> b.face.results,
          sceneDetection |-> b.scene.results,
          config |-> b.config,
          processingTime |-> b.person.processing_time,
          totalDuration |-> b.total_duration]

\* parseCompleteResults(file) on content b: rejects when JSON.parse or the read
\* of data.pipeline_results.person throws; otherwise each section's results
\* (|| []) and the sum of the sections' processing_time (|| 0).
ParseCompleteResults(b) ==
    IF ~b.readable
    THEN [ok |-> FALSE, personTracking |-> <<>>, faceAnalysis |-> <<>>,
          sceneDetection |-> <<>>, config |-> b.config, processingTime |-> 0,
          totalDuration |-> b.total_duration]
    ELSE [ok |-> TRUE,
          personTracking |-> b.person.results,
          faceAnalysis |-> b.face.results,
          sceneDetection |-> b.scene.results,
          config |-> b.config,
          processingTime |-> b.person.processing_time + b.face.processing_time
                               + b.scene.processing_time,
          totalDuration |-> b.total_duration]


\* PushBundlePipelines with the face_analysis test ahead of person_tracking's.
PushBundlePipelines_FaceFirst(found, person, face, scene) ==
    LET p1 == IF Len(face) > 0 THEN Append(found, "face_analysis") ELSE found
        p2 == IF Len(person) > 0 THEN Append(p1, "person_tracking") ELSE p1
    IN  IF Len(scene) > 0 THEN Append(p2, "scene_detection") ELSE p2

\* if (personTracking.length > 0) pipelinesFound.push('person_tracking'), and so
\* on for face_analysis and scene_detection, in this order.
PushBundlePipelines(found, person, face, scene) ==
    LET p1 == IF Len(person) > 0 THEN Append(found, "person_tracking") ELSE found
        p2 == IF Len(face) > 0 THEN Append(p1, "face_analysis") ELSE p1
    IN  IF Len(scene) > 0 THEN Append(p2, "scene_detection") ELSE p2

\* ProcessCompleteResults without its progress call.
ProcessCompleteResults_Silent(a, df, total, b) ==
    LET a1 == a
        a2 == [a1 EXCEPT !.invoked = Append(@, df.file)]
        r  == ParseCompleteResults(b)
    IN  IF r.ok
        THEN [a2 EXCEPT
                !.personTracking = r.personTracking,
                !.faceAnalysis = r.faceAnalysis,
                !.sceneDetection = r.sceneDetection,
                !.processingConfig = r.config,
                !.processingTime = Some(r.processingTime),
                !.totalDuration = r.totalDuration,
                !.pipelinesFound =
                    PushBundlePipelines(@, r.personTracking, r.faceAnalysis,
                                        r.sceneDetection),
                !.processedFiles = @ + 1]
        ELSE [a2 EXCEPT !.warnings =
                Append(@, [kind |-> "complete_results", file |-> df.file])]

\* ProcessCompleteResults whose catch leaves a processing time of zero behind.
ProcessCompleteResults_TimeOnFailure(a, df, total, b) ==
    LET a1 == OnProgress(a, [label |-> "Processing", file |-> df.file],
                         a.processedFiles, total)
        a2 == [a1 EXCEPT !.invoked = Append(@, df.file)]
        r  == ParseCompleteResults(b)
    IN  IF r.ok
        THEN [a2 EXCEPT
                !.personTracking = r.personTracking,
                !.faceAnalysis = r.faceAnalysis,
                !.sceneDetection = r.sceneDetection,
                !.processingConfig = r.config,
                !.processingTime = Some(r.processingTime),
                !.totalDuration = r.totalDuration,
                !.pipelinesFound =
                    PushBundlePipelines(@, r.personTracking, r.faceAnalysis,
                                        r.sceneDetection),
                !.processedFiles = @ + 1]
        ELSE [a2 EXCEPT !.processingTime = Some(0),
                        !.warnings =
                Append(@, [kind |-> "complete_results", file |-> df.file])]

\* The if (completeResultsFile) block: the progress call, the extraction and
\* either the assignments with processedFiles++ or the catch's warning.
ProcessCompleteResults(a, df, total, b) ==
    LET a1 == OnProgress(a, [label |-> "Processing", file |-> df.file],
                         a.processedFiles, total)
        a2 == [a1 EXCEPT !.invoked = Append(@, df.file)]
        r  == ParseCompleteResults(b)
    IN  IF r.ok
        THEN [a2 EXCEPT
                !.personTracking = r.personTracking,
                !.faceAnalysis = r.faceAnalysis,
                !.sceneDetection = r.sceneDetection,
                !.processingConfig = r.config,
                !.processingTime = Some(r.processingTime),
                !.totalDuration = r.totalDuration,
                !.pipelinesFound =
                    PushBundlePipelines(@, r.personTracking, r.faceAnalysis,
                                        r.sceneDetection),
                !.processedFiles = @ + 1]
        ELSE [a2 EXCEPT !.warnings =
                Append(@, [kind |-> "complete_results", file |-> df.file])]


\* AwaitParser whose failure path also resets the slot.
AwaitParser_ResetOnFailure(a, df, out, slot, name) ==
    LET a1 == [a EXCEPT !.invoked = Append(@, df.file)]
    IN  IF out.ok
        THEN [a1 EXCEPT ![slot] = out.data,
                        !.pipelinesFound = Append(@, name)]
        ELSE [a1 EXCEPT ![slot] = <<>>,
                        !.warnings =
                            Append(@, [kind |-> "parse", file |-> df.file])]

\* AwaitParser without the push of the name.
AwaitParser_Unlisted(a, df, out, slot, name) ==
    LET a1 == [a EXCEPT !.invoked = Append(@, df.file)]
    IN  IF out.ok
        THEN [a1 EXCEPT ![slot] = out.data]
        ELSE [a1 EXCEPT !.warnings =
                Append(@, [kind |-> "parse", file |-> df.file])]

\* slot = await parse(file); pipelinesFound.push(name): a rejection leaves both
\* untouched and lands in the loop's catch, which pushes one warning.
AwaitParser(a, df, out, slot, name) ==
    LET a1 == [a EXCEPT !.invoked = Append(@, df.file)]
    IN  IF out.ok
        THEN [a1 EXCEPT ![slot] = out.data,
                        !.pipelinesFound = Append(@, name)]
        ELSE [a1 EXCEPT !.warnings =
                Append(@, [kind |-> "parse", file |-> df.file])]


\* AwaitParserIfEmpty without the slot.length === 0 guard.
AwaitParserIfEmpty_Unguarded(a, df, out, slot, name) ==
    AwaitParser(a, df, out, slot, name)

\* AwaitParserIfEmpty guarded by the name having been pushed, not by the slot.
AwaitParserIfEmpty_OncePerName(a, df, out, slot, name) ==
    IF \A k \in 1..Len(a.pipelinesFound) : a.pipelinesFound[k] # name
    THEN AwaitParser(a, df, out, slot, name) ELSE a

\* if (slot.length === 0) { slot = await parse(file); push(name) }
AwaitParserIfEmpty(a, df, out, slot, name) ==
    IF Len(a[slot]) = 0 THEN AwaitParser(a, df, out, slot, name) ELSE a


\* SwitchOnType whose audio case assigns videoFile.
SwitchOnType_AudioAsVideo(a, df, out) ==
    CASE df.type \in {"video", "audio"} -> [a EXCEPT !.videoFile = Some(df.file)]
      [] df.type = "person_tracking" ->
            AwaitParserIfEmpty(a, df, out, "personTracking", "person_tracking")
      [] df.type = "face_analysis" ->
            AwaitParserIfEmpty(a, df, out, "faceAnalysis", "face_analysis")
      [] df.type = "speech_recognition" ->
            AwaitParser(a, df, out, "speechRecognition", "speech_recognition")
      [] df.type = "speaker_diarization" ->
            AwaitParser(a, df, out, "speakerDiarization", "speaker_diarization")
      [] df.type = "scene_detection" ->
            AwaitParserIfEmpty(a, df, out, "sceneDetection", "scene_detection")
      [] df.type = "unknown" ->
            [a EXCEPT !.warnings =
                Append(@, [kind |-> "unknown", file |-> df.file])]
      [] OTHER -> a

\* SwitchOnType whose unknown case pushes no warning.
SwitchOnType_UnknownSilent(a, df, out) ==
    CASE df.type = "video" -> [a EXCEPT !.videoFile = Some(df.file)]
      [] df.type = "audio" -> [a EXCEPT !.audioFile = Some(df.file)]
      [] df.type = "person_tracking" ->
            AwaitParserIfEmpty(a, df, out, "personTracking", "person_tracking")
      [] df.type = "face_analysis" ->
            AwaitParserIfEmpty(a, df, out, "faceAnalysis", "face_analysis")
      [] df.type = "speech_recognition" ->
            AwaitParser(a, df, out, "speechRecognition", "speech_recognition")
      [] df.type = "speaker_diarization" ->
            AwaitParser(a, df, out, "speakerDiarization", "speaker_diarization")
      [] df.type = "scene_detection" ->
            AwaitParserIfEmpty(a, df, out, "sceneDetection", "scene_detection")
      [] OTHER -> a

\* SwitchOnType whose video and audio cases keep the first file seen.
SwitchOnType_FirstMediaWins(a, df, out) ==
    CASE df.type = "video" ->
            IF a.videoFile = None THEN [a EXCEPT !.videoFile = Some(df.file)] ELSE a
      [] df.type = "audio" ->
            IF a.audioFile = None THEN [a EXCEPT !.audioFile = Some(df.file)] ELSE a
      [] df.type = "person_tracking" ->
            AwaitParserIfEmpty(a, df, out, "personTracking", "person_tracking")
      [] df.type = "face_analysis" ->
            AwaitParserIfEmpty(a, df, out, "faceAnalysis", "face_analysis")
      [] df.type = "speech_recognition" ->
            AwaitParser(a, df, out, "speechRecognition", "speech_recognition")
      [] df.type = "speaker_diarization" ->
            AwaitParser(a, df, out, "speakerDiarization", "speaker_diarization")
      [] df.type = "scene_detection" ->
            AwaitParserIfEmpty(a, df, out, "sceneDetection", "scene_detection")
      [] df.type = "unknown" ->
            [a EXCEPT !.warnings =
                Append(@, [kind |-> "unknown", file |-> df.file])]
      [] OTHER -> a

\* SwitchOnType whose transcript cases carry the slot.length === 0 guard too.
SwitchOnType_TranscriptsGuarded(a, df, out) ==
    CASE df.type = "video" -> [a EXCEPT !.videoFile = Some(df.file)]
      [] df.type = "audio" -> [a EXCEPT !.audioFile = Some(df.file)]
      [] df.type = "person_tracking" ->
            AwaitParserIfEmpty(a, df, out, "personTracking", "person_tracking")
      [] df.type = "face_analysis" ->
            AwaitParserIfEmpty(a, df, out, "faceAnalysis", "face_analysis")
      [] df.type = "speech_recognition" ->
            AwaitParserIfEmpty(a, df, out, "speechRecognition", "speech_recognition")
      [] df.type = "speaker_diarization" ->
            AwaitParserIfEmpty(a, df, out, "speakerDiarization", "speaker_diarization")
      [] df.type = "scene_detection" ->
            AwaitParserIfEmpty(a, df, out, "sceneDetection", "scene_detection")
      [] df.type = "unknown" ->
            [a EXCEPT !.warnings =
                Append(@, [kind |-> "unknown", file |-> df.file])]
      [] OTHER -> a

\* SwitchOnType treating a complete_results file of the loop as unknown.
SwitchOnType_BundleAsUnknown(a, df, out) ==
    CASE df.type = "video" -> [a EXCEPT !.videoFile = Some(df.file)]
      [] df.type = "audio" -> [a EXCEPT !.audioFile = Some(df.file)]
      [] df.type = "person_tracking" ->
            AwaitParserIfEmpty(a, df, out, "personTracking", "person_tracking")
      [] df.type = "face_analysis" ->
            AwaitParserIfEmpty(a, df, out, "faceAnalysis", "face_analysis")
      [] df.type = "speech_recognition" ->
            AwaitParser(a, df, out, "speechRecognition", "speech_recognition")
      [] df.type = "speaker_diarization" ->
            AwaitParser(a, df, out, "speakerDiarization", "speaker_diarization")
      [] df.type = "scene_detection" ->
            AwaitParserIfEmpty(a, df, out, "sceneDetection", "scene_detection")
      [] OTHER ->
            [a EXCEPT !.warnings =
                Append(@, [kind |-> "unknown", file |-> df.file])]

\* The switch on detectedFile.type; a complete_results file that is not
\* completeResultsFile matches no case.
SwitchOnType(a, df, out) ==
    CASE df.type = "video" -> [a EXCEPT !.videoFile = Some(df.file)]
      [] df.type = "audio" -> [a EXCEPT !.audioFile = Some(df.file)]
      [] df.type = "person_tracking" ->
            AwaitParserIfEmpty(a, df, out, "personTracking", "person_tracking")
      [] df.type = "face_analysis" ->
            AwaitParserIfEmpty(a, df, out, "faceAnalysis", "face_analysis")
      [] df.type = "speech_recognition" ->
            AwaitParser(a, df, out, "speechRecognition", "speech_recognition")
      [] df.type = "speaker_diarization" ->
            AwaitParser(a, df, out, "speakerDiarization", "speaker_diarization")
      [] df.type = "scene_detection" ->
            AwaitParserIfEmpty(a, df, out, "sceneDetection", "scene_detection")
      [] df.type = "unknown" ->
            [a EXCEPT !.warnings =
                Append(@, [kind |-> "unknown", file |-> df.file])]
      [] OTHER -> a

\* One iteration of the for-of loop on a file other than completeResultsFile:
\* the progress call, the switch inside try/catch, processedFiles++.
ProcessFile(a, df, total, out) ==
    LET a1 == OnProgress(a, [label |-> "Processing", file |-> df.file],
                         a.processedFiles, total)
        a2 == SwitchOnType(a1, df, out)
    IN  [a2 EXCEPT !.processedFiles = @ + 1]


\* AttachIfNonEmpty without the length test.
AttachIfNonEmpty_Always(data, key, seq) == data @@ [k \in {key} |-> seq]

\* if (seq.length > 0) data[key] = seq
AttachIfNonEmpty(data, key, seq) ==
    IF Len(seq) > 0 THEN data @@ [k \in {key} |-> seq] ELSE data

\* if (audioFile) data.audio_file = audioFile
AttachAudio(data, audioFile) ==
    IF audioFile # None THEN data @@ [k \in {"audio_file"} |-> audioFile[1]]
    ELSE data

\* The StandardAnnotationData built once extractVideoInfo has resolved.
AssembleData(a) ==
    LET base == [video_info |-> [filename |-> a.videoFile[1]],
                 metadata |-> [version |-> "1.1.1",
                               pipelines |-> a.pipelinesFound,
                               source |-> "videoannotator",
                               processing_config |-> a.processingConfig,
                               processing_time |-> a.processingTime,
                               total_duration |-> a.totalDuration]]
        d1 == AttachIfNonEmpty(base, "person_tracking", a.personTracking)
        d2 == AttachIfNonEmpty(d1, "speech_recognition", a.speechRecognition)
        d3 == AttachIfNonEmpty(d2, "speaker_diarization", a.speakerDiarization)
        d4 == AttachIfNonEmpty(d3, "scene_detection", a.sceneDetection)
        d5 == AttachIfNonEmpty(d4, "face_analysis", a.faceAnalysis)
    IN  AttachAudio(d5, a.audioFile)

\* The ParseResult returned: the data and the report.
MakeParseResult(a) ==
    [data |-> AssembleData(a),
     metadata |-> [filesProcessed |-> a.processedFiles,
                   pipelinesFound |-> a.pipelinesFound,
                   warnings |-> a.warnings]]


\* HasVideoFile with any warning treated as fatal.
HasVideoFile_WarningsFatal(a) == a.videoFile # None /\ a.warnings = <<>>

\* if (!videoFile) throw
HasVideoFile(a) == a.videoFile # None

totalFiles == Len(detectedFiles)
completeResultsFile == FindCompleteResults(detectedFiles)

\* Every list of at most MaxFiles detected files; merge reads only file and type.
DetectedFileLists ==
    UNION {{[i \in 1..n |-> [file |-> i, type |-> t[i]]] : t \in [1..n -> FileTypes]} :
            n \in 0..MaxFiles}

\* No call of the other functions is under way.
BatchIdle ==
    /\ files = <<>>
    /\ task = <<>>
    /\ promises = <<>>
    /\ settleOrder = <<>>
    /\ batchResult = None

DetectIdle ==
    /\ inputFile = None
    /\ detected = None

ViewIdle ==
    /\ classified = <<>>
    /\ validation = None
    /\ summary = None

\* STEPS.length
NumSteps == 4

\* AVAILABLE_PIPELINES.filter(p => p.enabled).map(p => p.name)
AvailablePipelines ==
    <<"scene_detection", "person_tracking", "face_analysis", "audio_processing">>

\* No handleSubmitJobs call has been made.
NoRun ==
    [pc |-> "idle", files |-> <<>>, pos |-> 0,
     jobIds |-> <<>>, errors |-> <<>>, scheduled |-> FALSE]

\* The CreateNewJob component as mounted.
WizardIdle ==
    /\ currentStep = 1
    /\ selectedFiles = <<>>
    /\ selectedPipelines = AvailablePipelines
    /\ isSubmitting = FALSE
    /\ submitError = None
    /\ submitSuccess = <<>>
    /\ run = NoRun
    /\ requests = <<>>
    /\ redirect = "none"

\* The contents the complete_results file of a list may have, drawn from
\* contents[handle]; a list without one has none.
BundleTexts(list, contents) ==
    LET c == FindCompleteResults(list)
    IN  IF c = None THEN {None} ELSE {Some(b) : b \in contents[c[1]]}

MergeIdle ==
    /\ detectedFiles = <<>>
    /\ bundleText = None
    /\ pc = "idle"
    /\ idx = 1
    /\ acc = InitAcc
    /\ outcome = <<>>
    /\ probeOk = None
    /\ result = None
    /\ error = None

\* mergeAnnotationData has been called on detectedFiles.
MergeCalled ==
    /\ pc = "start"
    /\ idx = 1
    /\ acc = InitAcc
    /\ outcome = [i \in 1..Len(detectedFiles) |-> None]
    /\ probeOk = None
    /\ result = None
    /\ error = None

Init ==
    /\ detectedFiles \in DetectedFileLists
    /\ bundleText \in BundleTexts(detectedFiles,
          [f \in 1..totalFiles |-> BundleContents(f)])
    /\ MergeCalled
    /\ BatchIdle
    /\ DetectIdle
    /\ ViewIdle
    /\ WizardIdle

\* Lines 414-445 with a complete_results file present.
ExtractCompleteResults ==
    /\ pc = "start"
    /\ completeResultsFile # None
    /\ LET c == completeResultsFile[1]
           b == bundleText[1]
       IN  /\ acc' = ProcessCompleteResults(acc, detectedFiles[c], totalFiles, b)
           /\ outcome' = [outcome EXCEPT ![c] =
                  Some([ok |-> ParseCompleteResults(b).ok, data |-> <<>>,
                        bundle |-> b])]
    /\ pc' = "loop"
    /\ UNCHANGED <<detectedFiles, bundleText, idx, probeOk, result, error, notMergeVars>>

\* Lines 414-445 with no complete_results file: the block is not entered.
NoCompleteResults ==
    /\ pc = "start"
    /\ completeResultsFile = None
    /\ pc' = "loop"
    /\ UNCHANGED <<detectedFiles, bundleText, idx, acc, outcome, probeOk, result, error, notMergeVars>>

\* if (detectedFile === completeResultsFile) continue
SkipCompleteResults ==
    /\ pc = "loop"
    /\ idx <= totalFiles
    /\ completeResultsFile = Some(idx)
    /\ idx' = idx + 1
    /\ UNCHANGED <<detectedFiles, bundleText, pc, acc, outcome, probeOk, result, error, notMergeVars>>

\* One iteration of the loop of lines 448-503 on any other file.
LoopIteration ==
    /\ pc = "loop"
    /\ idx <= totalFiles
    /\ completeResultsFile # Some(idx)
    /\ \E out \in ParserOutcomes(idx) :
         /\ acc' = ProcessFile(acc, detectedFiles[idx], totalFiles, out)
         /\ outcome' = [outcome EXCEPT ![idx] =
                IF Len(acc'.invoked) > Len(acc.invoked) THEN Some(out) ELSE None]
    /\ idx' = idx + 1
    /\ UNCHANGED <<detectedFiles, bundleText, pc, probeOk, result, error, notMergeVars>>

\* Lines 505-508: no video file was seen, the call rejects.
ThrowNoVideo ==
    /\ pc = "loop"
    /\ idx > totalFiles
    /\ ~HasVideoFile(acc)
    /\ pc' = "failed"
    /\ error' = Some(NoVideoError)
    /\ UNCHANGED <<detectedFiles, bundleText, idx, acc, outcome, probeOk, result, notMergeVars>>

\* Lines 510-565: the metadata progress call and await extractVideoInfo; its
\* rejection is not caught, its resolution leads to the assembly, the final
\* progress call and the return.
ExtractVideoInfo ==
    /\ pc = "loop"
    /\ idx > totalFiles
    /\ HasVideoFile(acc)
    /\ \E ok \in BOOLEAN :
         LET a1 == OnProgress(acc, [label |-> "Extracting video metadata", file |-> 0],
                              acc.processedFiles, totalFiles + 1)
             a2 == OnProgress(a1, [label |-> "Merging complete", file |-> 0],
                              totalFiles + 1, totalFiles + 1)
         IN  /\ probeOk' = Some(ok)
             /\ IF ok
                THEN /\ acc' = a2
                     /\ result' = Some(MakeParseResult(a2))
                     /\ pc' = "done"
                     /\ error' = error
                ELSE /\ acc' = a1
                     /\ result' = result
                     /\ pc' = "failed"
                     /\ error' = Some(ProbeError)
    /\ UNCHANGED <<detectedFiles, bundleText, idx, outcome, notMergeVars>>

Next ==
    \/ ExtractCompleteResults
    \/ NoCompleteResults
    \/ SkipCompleteResults
    \/ LoopIteration
    \/ ThrowNoVideo
    \/ ExtractVideoInfo

Spec == Init /\ [][Next]_vars

-----------------------------------------------------------------------------
(* Properties of mergeAnnotationData.                                       *)

HasType(t) == \E i \in 1..totalFiles : detectedFiles[i].type = t
LoopFinished == pc = "loop" /\ idx > totalFiles
Terminated == pc \in {"done", "failed"}
Awaited(i) == outcome[i] # None
Rejected(i) == Awaited(i) /\ ~outcome[i][1].ok
Resolved(i) == Awaited(i) /\ outcome[i][1].ok
IsBundle(i) == completeResultsFile = Some(i)
\* The loop's parser of file i rejected (the bundle's extractor is not in the loop).
ParserRejected(i) == Rejected(i) /\ ~IsBundle(i)
Count(seq, P(_)) == Cardinality({k \in 1..Len(seq) : P(seq[k])})
PipelineKeys ==
    {"person_tracking", "speech_recognition", "speaker_diarization",
     "scene_detection", "face_analysis"}
NoDuplicates(seq) ==
    \A j, k \in 1..Len(seq) : j # k => seq[j] # seq[k]

\* C1: a list with no file of type video makes the call reject with the
\* missing-video error and resolve to nothing, whatever the other files are and
\* whatever their parsers yielded.
C1_NoVideoRejects ==
    ~HasType("video") =>
        /\ result = None
        /\ pc # "done"
        /\ LoopFinished => ~HasVideoFile(acc)
        /\ pc = "failed" => error = Some(NoVideoError)

C1_Witness ==
    /\ pc = "failed"
    /\ error = Some(NoVideoError)
    /\ \E i, j \in 1..totalFiles : ParserRejected(i) /\ Resolved(j)

\* C2 as stated: with a video file in the list the call always resolves to a
\* record and a report, also when the video metadata probe rejects.
C2_OnlyNoVideoFails ==
    (HasType("video") /\ Terminated) => (pc = "done" /\ result # None)

\* C2, amended: the call rejects only for a list without video or when the
\* video metadata probe rejects; with a video file and a resolving probe it
\* resolves to a record and a report, whatever parsers or the extractor did.
C2_FailsOnlyOnNoVideoOrProbe ==
    /\ (HasType("video") /\ LoopFinished) => HasVideoFile(acc)
    /\ pc = "failed" =>
          \/ ~HasType("video") /\ error = Some(NoVideoError)
          \/ HasType("video") /\ probeOk = Some(FALSE) /\ error = Some(ProbeError)
    /\ (HasType("video") /\ Terminated /\ probeOk = Some(TRUE)) =>
          (pc = "done" /\ result # None /\ error = None)

C2_Witness ==
    /\ pc = "done"
    /\ result # None
    /\ \E i, j \in 1..totalFiles : ParserRejected(i) /\ IsBundle(j) /\ Rejected(j)

\* The run of lines 410-503 over a list, as one function of the list and of
\* what each file's parser or extractor yields (outs, by file handle); a parser
\* whose outcome is not known rejects.
OutcomeOf(outs, f) ==
    IF outs[f] # None THEN outs[f][1] ELSE [ok |-> FALSE, data |-> <<>>]

RECURSIVE LoopFrom(_, _, _, _, _)
LoopFrom(a, list, k, c, outs) ==
    IF k > Len(list) THEN a
    ELSE IF c = Some(k) THEN LoopFrom(a, list, k + 1, c, outs)
    ELSE LoopFrom(ProcessFile(a, list[k], Len(list), OutcomeOf(outs, list[k].file)),
                  list, k + 1, c, outs)

MergeLoop(list, outs) ==
    LET c == FindCompleteResults(list)
        a0 == IF c = None THEN InitAcc
              ELSE ProcessCompleteResults(InitAcc, list[c[1]], Len(list),
                                          outs[list[c[1]].file][1].bundle)
    IN  LoopFrom(a0, list, 1, c, outs)

\* What the loop hands to the assembly, apart from diagnostics and counters.
Accumulated(a) ==
    [pipelinesFound |-> a.pipelinesFound,
     videoFile |-> a.videoFile,
     audioFile |-> a.audioFile,
     personTracking |-> a.personTracking,
     speechRecognition |-> a.speechRecognition,
     speakerDiarization |-> a.speakerDiarization,
     sceneDetection |-> a.sceneDetection,
     faceAnalysis |-> a.faceAnalysis,
     processingConfig |-> a.processingConfig,
     processingTime |-> a.processingTime,
     totalDuration |-> a.totalDuration]

\* The parser calls made on files after position i, in order.
InvokedAfter(a, i) == SelectSeq(a.invoked, LAMBDA f : f > i)

\* C3 as stated: after a parser rejection on file i, every later file is
\* processed exactly as it would be had that parser returned its array instead:
\* the same later parsers are called.
C3_LaterFilesAsIfNoFailure ==
    LoopFinished =>
        \A i \in 1..totalFiles :
            ParserRejected(i) =>
                \A out \in {o \in ParserOutcomes(i) : o.ok} :
                    InvokedAfter(MergeLoop(detectedFiles,
                                           [outcome EXCEPT ![i] = Some(out)]), i)
                        = InvokedAfter(acc, i)

\* C3, amended: a parser rejection on a file of the loop adds exactly one
\* warning naming the file and changes no other accumulator; the loop goes on to
\* the next file, every file is visited, and what the loop accumulates is what
\* it accumulates over the list without the rejected files.
C3_RejectionStep ==
    (/\ pc = "loop" /\ idx <= totalFiles /\ idx' = idx + 1 /\ ~IsBundle(idx)
     /\ outcome'[idx] # None /\ ~outcome'[idx][1].ok) =>
        /\ acc'.warnings = Append(acc.warnings, [kind |-> "parse", file |-> idx])
        /\ Accumulated(acc') = Accumulated(acc)
        /\ acc'.processedFiles = acc.processedFiles + 1
        /\ pc' = "loop" /\ error' = None

C3_AsIfAbsent ==
    LoopFinished =>
        /\ \A i \in 1..totalFiles :
              IsBundle(i) \/ \E k \in 1..Len(acc.progress) : acc.progress[k].stage.file = i
        /\ \A i \in 1..totalFiles :
              ParserRejected(i) => Count(acc.warnings, LAMBDA w : w.file = i) = 1
        /\ Accumulated(acc) =
              Accumulated(MergeLoop(SelectSeq(detectedFiles,
                                              LAMBDA df : ~ParserRejected(df.file)),
                                    outcome))

\* C3, amended, as one formula: every rejecting iteration is local
\* (C3_RejectionStep) and the loop's outcome is that of the list without the
\* rejected files (C3_AsIfAbsent).
C3_RejectionIsLocal == [][C3_RejectionStep]_vars /\ []C3_AsIfAbsent

C3_Witness ==
    /\ pc = "done"
    /\ \E i, j \in 1..totalFiles :
          /\ i < j
          /\ ParserRejected(i)
          /\ Resolved(j) /\ outcome[j][1].data # <<>>
          /\ detectedFiles[i].type = detectedFiles[j].type

\* The bundle the extractor read, once it has resolved.
BundleExtracted == \E i \in 1..totalFiles : IsBundle(i) /\ Resolved(i)
Bundle == outcome[completeResultsFile[1]][1].bundle
Data == result[1].data
Report == result[1].metadata
WarningsFor(i) == Count(acc.warnings, LAMBDA w : w.file = i)
SeparateFiles(t) ==
    {i \in 1..totalFiles : detectedFiles[i].type = t /\ ~IsBundle(i)}

\* C4 as stated: with a complete_results file and a separate person_tracking
\* file in the list, the record's person_tracking is the bundle's, and the
\* separate file's parser is never called.
C4_BundleAlwaysWins ==
    (pc = "done" /\ completeResultsFile # None) =>
        \A i \in SeparateFiles("person_tracking") :
            /\ ~Awaited(i)
            /\ WarningsFor(i) = 0
            /\ "person_tracking" \in DOMAIN Data
            /\ Data.person_tracking = Bundle.person.results

\* C4, amended: when the bundle's extraction succeeded and yielded a non-empty
\* person-tracking array, no separate person_tracking file's parser is called,
\* no warning is produced for such a file, and the record's person_tracking is
\* the bundle's array.
C4_NonEmptyBundleWins ==
    (BundleExtracted /\ Bundle.person.results # <<>>) =>
        /\ \A i \in SeparateFiles("person_tracking") :
              ~Awaited(i) /\ WarningsFor(i) = 0
        /\ acc.personTracking = Bundle.person.results
        /\ pc = "done" =>
              /\ "person_tracking" \in DOMAIN Data
              /\ Data.person_tracking = Bundle.person.results
              /\ \A k \in 1..Len(Report.warnings) :
                    Report.warnings[k].file \notin SeparateFiles("person_tracking")

C4_Witness ==
    /\ pc = "done"
    /\ BundleExtracted /\ Bundle.person.results # <<>>
    /\ \E i \in SeparateFiles("person_tracking") : i < completeResultsFile[1]

\* C5: in every record returned, each pipeline key is absent or holds a
\* non-empty array, whatever the parsers returned.
C5_NoEmptyPayload ==
    pc = "done" =>
        \A key \in PipelineKeys :
            key \in DOMAIN Data => Len(Data[key]) > 0

C5_Witness ==
    /\ pc = "done"
    /\ \E i, j \in 1..totalFiles :
          /\ Resolved(i) /\ ~IsBundle(i) /\ outcome[i][1].data = <<>>
          /\ Resolved(j) /\ ~IsBundle(j) /\ outcome[j][1].data # <<>>
    /\ \E key \in PipelineKeys : key \in DOMAIN Data
    /\ \E key \in PipelineKeys : key \notin DOMAIN Data

\* C6: pipelinesFound and metadata.pipelines list each pipeline name at most
\* once.
C6_NoDuplicatePipelines ==
    pc = "done" =>
        /\ NoDuplicates(Report.pipelinesFound)
        /\ NoDuplicates(Data.metadata.pipelines)

\* The names the bundle contributes, and the names the separate files
\* contribute in list order, from what the extractor and the parsers yielded.
BundleNames ==
    IF ~BundleExtracted THEN <<>>
    ELSE (IF Bundle.person.results # <<>> THEN <<"person_tracking">> ELSE <<>>)
         \o (IF Bundle.face.results # <<>> THEN <<"face_analysis">> ELSE <<>>)
         \o (IF Bundle.scene.results # <<>> THEN <<"scene_detection">> ELSE <<>>)

RECURSIVE FileNamesFrom(_)
FileNamesFrom(i) ==
    IF i > totalFiles THEN <<>>
    ELSE (IF ~IsBundle(i) /\ Resolved(i) THEN <<detectedFiles[i].type>> ELSE <<>>)
         \o FileNamesFrom(i + 1)

\* C7: metadata.pipelines is the bundle's names (person_tracking,
\* face_analysis, scene_detection, those present) followed by the names found
\* from the separate files in list order, wherever the bundle sits in the list.
C7_BundleNamesFirst ==
    pc = "done" =>
        /\ Data.metadata.pipelines = BundleNames \o FileNamesFrom(1)
        /\ Report.pipelinesFound = BundleNames \o FileNamesFrom(1)

C7_Witness ==
    /\ pc = "done"
    /\ Len(BundleNames) >= 2
    /\ Len(FileNamesFrom(1)) >= 1
    /\ \E i \in 1..totalFiles : Resolved(i) /\ i < completeResultsFile[1]

\* C8: the warnings of a resolved merge hold exactly one entry for each file
\* of type unknown and each file whose parser or extractor rejected, naming
\* it, and none for any other file.
C8_WarningsExact ==
    pc = "done" =>
        /\ \A i \in 1..totalFiles :
              Count(Report.warnings, LAMBDA w : w.file = i) =
                  IF detectedFiles[i].type = "unknown" \/ Rejected(i) THEN 1 ELSE 0
        /\ \A k \in 1..Len(Report.warnings) :
              Report.warnings[k].file \in 1..totalFiles

C8_Witness ==
    /\ pc = "done"
    /\ Len(Report.warnings) = 2
    /\ \E i, j \in 1..totalFiles :
          detectedFiles[i].type = "unknown" /\ Rejected(j)

-----------------------------------------------------------------------------
(* detectFileType and batchDetectFileTypes.                                 *)
(*                                                                          *)
(* A File to classify is [handle, ext, marks, mime, content]: ext is        *)
(* file.name.toLowerCase().split('.').pop(), marks the substrings of        *)
(* NameMarks that file.name includes, mime is file.type in lower case.      *)
(* content is [webvtt, speaker, size, json]: whether the trimmed first 100  *)
(* characters start with WEBVTT, whether the first 1000 include SPEAKER,    *)
(* the length of the text, and what JSON.parse makes of the whole text. A   *)
(* prefix shorter than the text does not parse.                             *)

NameMarks ==
    {"speech_recognition", "speaker_diarization", "complete_results",
     "face_annotations", "laion_face", "person", "tracking", "scene"}

VideoExtensions == {"mp4", "webm", "avi", "mov"}
AudioExtensions == {"wav", "mp3", "aac", "ogg"}

\* mimeType.startsWith('video/'), mimeType.startsWith('audio/')
IsVideoMime(mime) == mime \in {"video/mp4", "video/webm"}
IsAudioMime(mime) == mime \in {"audio/wav", "audio/mpeg"}

\* A field of a parsed object that the sniffers index: missing (or falsy), an
\* array (first: "none" when empty, else what element 0 is, with an object's
\* keys), or some other truthy value.
NoField == [kind |-> "absent", first |-> "none", keys |-> {}]
ArrayField(first, keys) == [kind |-> "array", first |-> first, keys |-> keys]

\* What JSON.parse yields: a SyntaxError ("invalid"), an array, an object, or
\* another value ("other": null, a number, a string, a boolean).
JsonInvalid ==
    [kind |-> "invalid", first |-> "none", keys |-> {}, truthy |-> {},
     present |-> {},
     total_duration |-> FALSE, annotations |-> NoField, results |-> NoField,
     scenes |-> NoField]
JsonOther == [JsonInvalid EXCEPT !.kind = "other"]
JsonArray(first, keys) ==
    [JsonInvalid EXCEPT !.kind = "array", !.first = first, !.keys = keys]
JsonObject(truthy, duration, annotations, results, scenes) ==
    [JsonInvalid EXCEPT !.kind = "object", !.truthy = truthy,
                        !.present = truthy,
                        !.total_duration = duration,
                        !.annotations = annotations, !.results = results,
                        !.scenes = scenes]

\* An object that also has the fields of falsy, with values such as 0, ""
\* or null.
JsonObjectWithFalsy(truthy, falsy, duration) ==
    [JsonObject(truthy, duration, NoField, NoField, NoField)
        EXCEPT !.present = truthy \cup falsy]

\* JSON.parse(await file.slice(0, limit).text())
ParseSample(content, limit) ==
    IF content.size > limit THEN JsonInvalid ELSE content.json

\* arr[0] && k1 in arr[0] && ...: "throws" when arr[0] is a truthy primitive.
FirstHasKeys(first, keys, wanted) ==
    CASE first = "object" -> IF wanted \subseteq keys THEN "yes" ELSE "no"
      [] first = "primitive" -> "throws"
      [] OTHER -> "no"

\* data.length === 0 || (data[0] && k1 in data[0] && ...), inside try/catch
ArrayMatches(data, wanted) ==
    data.first = "none" \/ FirstHasKeys(data.first, data.keys, wanted) = "yes"

\* field && field[0] && key in field[0]
FieldFirstHas(field, key) ==
    IF field.kind = "array" /\ field.first # "none"
    THEN FirstHasKeys(field.first, field.keys, {key})
    ELSE "no"

isValidWebVTT(file) == file.content.webvtt
isValidRTTM(file) == file.content.speaker

isValidCOCOPersonData(file) ==
    LET data == ParseSample(file.content, 2000)
    IN  CASE data.kind = "array" -> ArrayMatches(data, {"keypoints", "bbox"})
          [] data.kind = "object" ->
                data.annotations.kind = "array" \/ data.results.kind = "array"
          [] OTHER -> FALSE

isValidSceneDetection(file) ==
    LET data == ParseSample(file.content, 2000)
    IN  CASE data.kind = "array" ->
                \/ ArrayMatches(data, {"start_time"})
                \/ ArrayMatches(data, {"startTime"})
          [] data.kind = "object" ->
                \/ data.results.kind = "array"
                \/ data.scenes.kind = "array"
                \/ FieldFirstHas(data.annotations, "scene_type") = "yes"
          [] OTHER -> FALSE

\* isValidCompleteResults reading a 5000-character sample, not the whole file.
isValidCompleteResults_SampleOnly(file) ==
    LET data == ParseSample(file.content, 5000)
    IN  /\ data.kind = "object"
        /\ {"video_path", "pipeline_results", "config", "start_time"}
              \subseteq data.truthy
        /\ data.total_duration

\* isValidCompleteResults testing the presence of the fields, not their value.
isValidCompleteResults_Presence(file) ==
    LET data == file.content.json
    IN  /\ data.kind = "object"
        /\ {"video_path", "pipeline_results", "config", "start_time"}
              \subseteq data.present
        /\ data.total_duration

isValidCompleteResults(file) ==
    LET data == file.content.json
    IN  /\ data.kind = "object"
        /\ {"video_path", "pipeline_results", "config", "start_time"}
              \subseteq data.truthy
        /\ data.total_duration

isValidFaceAnalysis(file) ==
    LET data == ParseSample(file.content, 2000)
    IN  CASE data.kind = "array" -> ArrayMatches(data, {"face_id", "attributes"})
          [] data.kind = "object" ->
                LET a == FieldFirstHas(data.annotations, "face_id")
                IN  \/ a = "yes"
                    \/ a = "no" /\ FieldFirstHas(data.results, "face_id") = "yes"
          [] OTHER -> FALSE

Detected(file, type, pipeline, confidence) ==
    [file |-> file.handle, type |-> type, pipeline |-> pipeline,
     confidence |-> confidence]

\* detectJSONType with the COCO sniffer consulted before the face sniffer.
detectJSONType_CocoFirst(file) ==
    IF isValidCompleteResults(file)
        THEN Detected(file, "complete_results", Some("complete_results"), 95)
    ELSE IF ParseSample(file.content, 5000).kind = "invalid"
        THEN Detected(file, "unknown", None, 0)
    ELSE IF isValidCOCOPersonData(file)
        THEN Detected(file, "person_tracking", Some("person_tracking"), 80)
    ELSE IF isValidFaceAnalysis(file)
        THEN Detected(file, "face_analysis", Some("face_analysis"), 80)
    ELSE IF isValidSceneDetection(file)
        THEN Detected(file, "scene_detection", Some("scene_detection"), 80)
    ELSE IF "complete_results" \in file.marks
        THEN Detected(file, "complete_results", Some("complete_results"), 70)
    ELSE IF "face_annotations" \in file.marks \/ "laion_face" \in file.marks
        THEN Detected(file, "face_analysis", Some("face_analysis"), 60)
    ELSE IF "person" \in file.marks \/ "tracking" \in file.marks
        THEN Detected(file, "person_tracking", Some("person_tracking"), 50)
    ELSE IF "scene" \in file.marks
        THEN Detected(file, "scene_detection", Some("scene_detection"), 50)
    ELSE Detected(file, "unknown", None, 20)

\* detectJSONType whose catch block reports the "unrecognized shape"
\* confidence instead of 0.0.
detectJSONType_CatchAsUnrecognized(file) ==
    IF isValidCompleteResults(file)
        THEN Detected(file, "complete_results", Some("complete_results"), 95)
    ELSE IF ParseSample(file.content, 5000).kind = "invalid"
        THEN Detected(file, "unknown", None, 20)
    ELSE IF isValidFaceAnalysis(file)
        THEN Detected(file, "face_analysis", Some("face_analysis"), 80)
    ELSE IF isValidCOCOPersonData(file)
        THEN Detected(file, "person_tracking", Some("person_tracking"), 80)
    ELSE IF isValidSceneDetection(file)
        THEN Detected(file, "scene_detection", Some("scene_detection"), 80)
    ELSE IF "complete_results" \in file.marks
        THEN Detected(file, "complete_results", Some("complete_results"), 70)
    ELSE IF "face_annotations" \in file.marks \/ "laion_face" \in file.marks
        THEN Detected(file, "face_analysis", Some("face_analysis"), 60)
    ELSE IF "person" \in file.marks \/ "tracking" \in file.marks
        THEN Detected(file, "person_tracking", Some("person_tracking"), 50)
    ELSE IF "scene" \in file.marks
        THEN Detected(file, "scene_detection", Some("scene_detection"), 50)
    ELSE Detected(file, "unknown", None, 20)

detectJSONType(file) ==
    IF isValidCompleteResults(file)
        THEN Detected(file, "complete_results", Some("complete_results"), 95)
    ELSE IF ParseSample(file.content, 5000).kind = "invalid"
        THEN Detected(file, "unknown", None, 0)
    ELSE IF isValidFaceAnalysis(file)
        THEN Detected(file, "face_analysis", Some("face_analysis"), 80)
    ELSE IF isValidCOCOPersonData(file)
        THEN Detected(file, "person_tracking", Some("person_tracking"), 80)
    ELSE IF isValidSceneDetection(file)
        THEN Detected(file, "scene_detection", Some("scene_detection"), 80)
    ELSE IF "complete_results" \in file.marks
        THEN Detected(file, "complete_results", Some("complete_results"), 70)
    ELSE IF "face_annotations" \in file.marks \/ "laion_face" \in file.marks
        THEN Detected(file, "face_analysis", Some("face_analysis"), 60)
    ELSE IF "person" \in file.marks \/ "tracking" \in file.marks
        THEN Detected(file, "person_tracking", Some("person_tracking"), 50)
    ELSE IF "scene" \in file.marks
        THEN Detected(file, "scene_detection", Some("scene_detection"), 50)
    ELSE Detected(file, "unknown", None, 20)

\* detectFileType with the transcript rules tried before the media rules.
detectFileType_TextFirst(file) ==
    IF file.ext = "vtt" \/ "speech_recognition" \in file.marks
        THEN Detected(file, "speech_recognition", Some("speech_recognition"),
                      IF isValidWebVTT(file) THEN 90 ELSE 30)
    ELSE IF file.ext = "rttm" \/ "speaker_diarization" \in file.marks
        THEN Detected(file, "speaker_diarization", Some("speaker_diarization"),
                      IF isValidRTTM(file) THEN 90 ELSE 30)
    ELSE IF file.ext \in VideoExtensions \/ IsVideoMime(file.mime)
        THEN Detected(file, "video", None, 95)
    ELSE IF file.ext \in AudioExtensions \/ IsAudioMime(file.mime)
        THEN Detected(file, "audio", None, 95)
    ELSE IF file.ext = "json" \/ file.mime = "application/json"
        THEN detectJSONType(file)
    ELSE Detected(file, "unknown", None, 0)

detectFileType(file) ==
    IF file.ext \in VideoExtensions \/ IsVideoMime(file.mime)
        THEN Detected(file, "video", None, 95)
    ELSE IF file.ext \in AudioExtensions \/ IsAudioMime(file.mime)
        THEN Detected(file, "audio", None, 95)
    ELSE IF file.ext = "vtt" \/ "speech_recognition" \in file.marks
        THEN Detected(file, "speech_recognition", Some("speech_recognition"),
                      IF isValidWebVTT(file) THEN 90 ELSE 30)
    ELSE IF file.ext = "rttm" \/ "speaker_diarization" \in file.marks
        THEN Detected(file, "speaker_diarization", Some("speaker_diarization"),
                      IF isValidRTTM(file) THEN 90 ELSE 30)
    ELSE IF file.ext = "json" \/ file.mime = "application/json"
        THEN detectJSONType(file)
    ELSE Detected(file, "unknown", None, 0)

\* (a, b) => b.confidence - a.confidence, ascending instead.
CompareConfidence_Ascending(a, b) == a.confidence - b.confidence

\* (a, b) => b.confidence - a.confidence
CompareConfidence(a, b) == b.confidence - a.confidence

\* Array.prototype.sort with that comparator: a stable sort, here by insertion
\* of each element behind every element that does not compare greater.
RECURSIVE InsertSorted(_, _)
InsertSorted(sorted, x) ==
    IF sorted = <<>> THEN <<x>>
    ELSE IF CompareConfidence(Head(sorted), x) > 0 THEN <<x>> \o sorted
    ELSE <<Head(sorted)>> \o InsertSorted(Tail(sorted), x)

RECURSIVE SortPrefix(_, _)
SortPrefix(seq, n) ==
    IF n = 0 THEN <<>> ELSE InsertSorted(SortPrefix(seq, n - 1), seq[n])

SortByConfidence(seq) == SortPrefix(seq, Len(seq))

\* Promise.all with the promises in completion order instead of index order.
GatherResults_CompletionOrder(p, order) ==
    [k \in 1..Len(order) |-> p[order[k]][1]]

\* await Promise.all(promises): the values in the order of the promises.
GatherResults(p, order) == [i \in 1..Len(p) |-> p[i][1]]

\* Whether detectFileType awaits a read of the file before it returns.
AwaitsRead(file) ==
    /\ ~(file.ext \in VideoExtensions \/ IsVideoMime(file.mime))
    /\ ~(file.ext \in AudioExtensions \/ IsAudioMime(file.mime))
    /\ \/ file.ext \in {"vtt", "rttm", "json"}
       \/ file.mime = "application/json"
       \/ "speech_recognition" \in file.marks
       \/ "speaker_diarization" \in file.marks

TextContent(webvtt, speaker) ==
    [webvtt |-> webvtt, speaker |-> speaker, size |-> 500, json |-> JsonInvalid]
JsonContent(size, json) ==
    [webvtt |-> FALSE, speaker |-> FALSE, size |-> size, json |-> json]
MakeFile(ext, marks, mime, content) ==
    [handle |-> 0, ext |-> ext, marks |-> marks, mime |-> mime, content |-> content]

\* The files a batch is drawn from: one or two for each confidence the
\* classifier assigns.
SampleFiles ==
    {MakeFile("mp4", {}, "video/mp4", TextContent(FALSE, FALSE)),
     MakeFile("vtt", {}, "text/vtt", TextContent(TRUE, FALSE)),
     MakeFile("vtt", {}, "", TextContent(FALSE, FALSE)),
     MakeFile("rttm", {"speaker_diarization"}, "", TextContent(FALSE, TRUE)),
     MakeFile("json", {"complete_results"}, "application/json",
              JsonContent(6000,
                  JsonObject({"video_path", "pipeline_results", "config", "start_time"},
                             TRUE, NoField, NoField, NoField))),
     MakeFile("json", {}, "application/json",
              JsonContent(500, JsonArray("object", {"face_id", "attributes"}))),
     MakeFile("json", {"person"}, "application/json",
              JsonContent(3000, JsonArray("object", {"keypoints", "bbox"}))),
     MakeFile("json", {}, "application/json",
              JsonContent(500, JsonObject({}, FALSE, NoField, NoField, NoField))),
     MakeFile("txt", {}, "text/plain", TextContent(FALSE, FALSE))}

FileLists ==
    UNION {{[i \in 1..n |-> [f[i] EXCEPT !.handle = i]] : f \in [1..n -> SampleFiles]} :
            n \in 0..MaxBatch}

BatchInit ==
    /\ files \in FileLists
    /\ task = [i \in 1..Len(files) |->
                 IF AwaitsRead(files[i]) THEN "reading" ELSE "sniffed"]
    /\ promises = [i \in 1..Len(files) |-> None]
    /\ settleOrder = <<>>
    /\ batchResult = None
    /\ MergeIdle
    /\ DetectIdle
    /\ ViewIdle
    /\ WizardIdle

\* The read a detectFileType call awaits completes.
ReadCompletes(i) ==
    /\ task[i] = "reading"
    /\ task' = [task EXCEPT ![i] = "sniffed"]
    /\ UNCHANGED <<files, promises, settleOrder, batchResult, notBatchVars>>

\* A detectFileType call returns: its promise settles with the DetectedFile.
PromiseSettles(i) ==
    /\ task[i] = "sniffed"
    /\ task' = [task EXCEPT ![i] = "settled"]
    /\ promises' = [promises EXCEPT ![i] = Some(detectFileType(files[i]))]
    /\ settleOrder' = Append(settleOrder, i)
    /\ UNCHANGED <<files, batchResult, notBatchVars>>

\* Promise.all resolves once every promise has settled; the array is sorted
\* and returned.
BatchReturns ==
    /\ batchResult = None
    /\ \A i \in 1..Len(files) : task[i] = "settled"
    /\ batchResult' =
          Some(SortByConfidence(GatherResults(promises, settleOrder)))
    /\ UNCHANGED <<files, task, promises, settleOrder, notBatchVars>>

BatchNext ==
    \/ \E i \in 1..Len(files) : ReadCompletes(i)
    \/ \E i \in 1..Len(files) : PromiseSettles(i)
    \/ BatchReturns

SpecBatch == BatchInit /\ [][BatchNext]_vars

\* Classifying the files one after another, in input order.
RECURSIVE SequentialDetect(_)
SequentialDetect(n) ==
    IF n = 0 THEN <<>> ELSE Append(SequentialDetect(n - 1), detectFileType(files[n]))

Sorted == batchResult[1]

\* C9: the output of batchDetectFileTypes is a permutation of the
\* classifications of its input files, with non-increasing confidences, and
\* entries of equal confidence keep the relative order of their files.
C9_StableDescendingPermutation ==
    batchResult # None =>
        /\ Len(Sorted) = Len(files)
        /\ \A i \in 1..Len(files) :
              Cardinality({k \in 1..Len(Sorted) : Sorted[k] = detectFileType(files[i])}) = 1
        /\ \A k, l \in 1..Len(Sorted) :
              k < l => Sorted[k].confidence >= Sorted[l].confidence
        /\ \A k, l \in 1..Len(Sorted) :
              (k < l /\ Sorted[k].confidence = Sorted[l].confidence)
                  => Sorted[k].file < Sorted[l].file

C9_Witness ==
    /\ batchResult # None
    /\ \E k, l \in 1..Len(Sorted) :
          k < l /\ Sorted[k].confidence = Sorted[l].confidence
    /\ \E k \in 1..Len(Sorted) : Sorted[k].file # k

\* C10: whatever the order in which the reads complete and the promises
\* settle, the output is that of classifying the files one after another and
\* sorting.
C10_OrderIndependent ==
    batchResult # None =>
        Sorted = SortByConfidence(SequentialDetect(Len(files)))

C10_Witness ==
    /\ batchResult # None
    /\ \E j, k \in 1..Len(settleOrder) :
          /\ j < k
          /\ settleOrder[j] > settleOrder[k]
          /\ promises[settleOrder[j]][1].confidence
                = promises[settleOrder[k]][1].confidence
          /\ promises[settleOrder[j]][1].type # promises[settleOrder[k]][1].type


(***************************************************************************)
(* One call of detectFileType on one file.                                 *)
(***************************************************************************)

\* How many of the NameMarks one file name carries.
MaxMarks == 2

MarkSets == {m \in SUBSET NameMarks : Cardinality(m) <= MaxMarks}

\* Keys the sniffers look for in element 0 of an array.
SniffedKeys ==
    {"keypoints", "bbox", "face_id", "attributes", "start_time", "startTime"}

JsonArrays ==
    {JsonArray(first, {}) : first \in {"none", "falsy", "primitive"}}
        \cup {JsonArray("object", keys) : keys \in SUBSET SniffedKeys}

RequiredFields == {"video_path", "pipeline_results", "config", "start_time"}

AnnotationFields ==
    {NoField, ArrayField("none", {}), ArrayField("primitive", {}),
     ArrayField("object", {}), ArrayField("object", {"face_id"}),
     ArrayField("object", {"scene_type"})}
ResultFields ==
    {NoField, ArrayField("none", {}), ArrayField("object", {}),
     ArrayField("object", {"face_id"})}
SceneFields == {NoField, ArrayField("none", {})}

JsonObjects ==
    {JsonObject(truthy, duration, annotations, results, scenes) :
        truthy \in {RequiredFields, RequiredFields \ {"config"}, {}},
        duration \in BOOLEAN, annotations \in AnnotationFields,
        results \in ResultFields, scenes \in SceneFields}

\* Objects with every required field, one of them holding a falsy value.
JsonObjectsWithFalsy ==
    {JsonObjectWithFalsy(RequiredFields \ {f}, {f}, duration) :
        f \in RequiredFields, duration \in BOOLEAN}

JsonValues ==
    {JsonInvalid, JsonOther} \cup JsonArrays \cup JsonObjects
        \cup JsonObjectsWithFalsy

\* Sizes below the sniffers' 2000, between it and the 5000 of the sample, and
\* above both.
JsonSizes == {500, 3000, 6000}

TextContents == {TextContent(w, s) : w \in BOOLEAN, s \in BOOLEAN}

\* Files of every extension and MIME family, with text and a few JSON bodies.
NameSlice ==
    {MakeFile(ext, marks, mime, content) :
        ext \in {"mp4", "wav", "vtt", "rttm", "json", "txt"},
        marks \in MarkSets,
        mime \in {"video/mp4", "audio/wav", "application/json", ""},
        content \in TextContents \cup
            {JsonContent(500, JsonArray("object", {"face_id", "attributes"})),
             JsonContent(500, JsonObject({}, FALSE, NoField, NoField, NoField))}}

\* .json files of every body.
JsonSlice ==
    {MakeFile("json", marks, "", JsonContent(size, json)) :
        marks \in MarkSets, size \in JsonSizes, json \in JsonValues}

InputFiles == NameSlice \cup JsonSlice

DetectInit ==
    /\ inputFile \in {Some(f) : f \in InputFiles}
    /\ detected = None
    /\ MergeIdle
    /\ BatchIdle
    /\ ViewIdle
    /\ WizardIdle

\* await detectFileType(file)
DetectFileType ==
    /\ inputFile # None
    /\ detected = None
    /\ detected' = Some(detectFileType(inputFile[1]))
    /\ UNCHANGED <<inputFile, notDetectVars>>

DetectNext == DetectFileType

SpecDetect == DetectInit /\ [][DetectNext]_vars

IsMedia(f) ==
    \/ f.ext \in VideoExtensions \/ IsVideoMime(f.mime)
    \/ f.ext \in AudioExtensions \/ IsAudioMime(f.mime)
NamedSpeech(f) == f.ext = "vtt" \/ "speech_recognition" \in f.marks
NamedSpeaker(f) == f.ext = "rttm" \/ "speaker_diarization" \in f.marks
JsonTyped(f) ==
    /\ ~IsMedia(f) /\ ~NamedSpeech(f) /\ ~NamedSpeaker(f)
    /\ (f.ext = "json" \/ f.mime = "application/json")

\* The call has resolved to type t with confidence c.
Is(t, c) == detected[1].type = t /\ detected[1].confidence = c

\* C11: the classifier answers with the first applicable rule of: video or
\* audio by extension or MIME (0.95), .vtt or speech_recognition in the name
\* (0.9 when the WebVTT sniffer matches, else 0.3), .rttm or
\* speaker_diarization in the name (0.9/0.3), JSON sub-classification, unknown
\* at 0.0; so media files are never classified by name or content and a
\* .vtt/.rttm file failing its sniffer stays in its category at 0.3.
C11_FirstApplicableRule ==
    detected # None =>
        LET f == inputFile[1]
            d == detected[1]
        IN  /\ d.file = f.handle
            /\ (f.ext \in VideoExtensions \/ IsVideoMime(f.mime))
                  => Is("video", 95) /\ d.pipeline = None
            /\ (~(f.ext \in VideoExtensions \/ IsVideoMime(f.mime))
                    /\ (f.ext \in AudioExtensions \/ IsAudioMime(f.mime)))
                  => Is("audio", 95) /\ d.pipeline = None
            /\ (~IsMedia(f) /\ NamedSpeech(f))
                  => /\ Is("speech_recognition",
                            IF isValidWebVTT(f) THEN 90 ELSE 30)
                     /\ d.pipeline = Some("speech_recognition")
            /\ (~IsMedia(f) /\ ~NamedSpeech(f) /\ NamedSpeaker(f))
                  => /\ Is("speaker_diarization",
                            IF isValidRTTM(f) THEN 90 ELSE 30)
                     /\ d.pipeline = Some("speaker_diarization")
            /\ JsonTyped(f) => d = detectJSONType(f)
            /\ (~IsMedia(f) /\ ~NamedSpeech(f) /\ ~NamedSpeaker(f)
                    /\ ~JsonTyped(f))
                  => Is("unknown", 0) /\ d.pipeline = None
            /\ IsMedia(f) => d.type \in {"video", "audio"}
            /\ (~IsMedia(f) /\ f.ext = "vtt" /\ ~isValidWebVTT(f))
                  => Is("speech_recognition", 30)
            /\ (~IsMedia(f) /\ ~NamedSpeech(f) /\ f.ext = "rttm"
                    /\ ~isValidRTTM(f))
                  => Is("speaker_diarization", 30)

\* A .vtt file that fails the WebVTT sniffer and also carries
\* speaker_diarization in its name has been classified.
C11_Witness ==
    /\ detected # None
    /\ inputFile[1].ext = "vtt"
    /\ ~isValidWebVTT(inputFile[1])
    /\ ~IsMedia(inputFile[1])
    /\ "speaker_diarization" \in inputFile[1].marks
    /\ Is("speech_recognition", 30)


\* The sniffer and filename rules of the JSON sub-classification in their
\* stated order, as <<type, confidence>>.
SnifferThenNameRule(f) ==
    IF isValidFaceAnalysis(f) THEN <<"face_analysis", 80>>
    ELSE IF isValidCOCOPersonData(f) THEN <<"person_tracking", 80>>
    ELSE IF isValidSceneDetection(f) THEN <<"scene_detection", 80>>
    ELSE IF "complete_results" \in f.marks THEN <<"complete_results", 70>>
    ELSE IF {"face_annotations", "laion_face"} \cap f.marks # {}
        THEN <<"face_analysis", 60>>
    ELSE IF {"person", "tracking"} \cap f.marks # {}
        THEN <<"person_tracking", 50>>
    ELSE IF "scene" \in f.marks THEN <<"scene_detection", 50>>
    ELSE <<"unknown", 20>>

AnySnifferMatches(f) ==
    isValidFaceAnalysis(f) \/ isValidCOCOPersonData(f) \/ isValidSceneDetection(f)

AnyNameRuleMatches(f) ==
    {"complete_results", "face_annotations", "laion_face", "person",
     "tracking", "scene"} \cap f.marks # {}

SamplePrefixParses(f) == ParseSample(f.content, 5000).kind # "invalid"

\* C12 as stated: a JSON-typed file gets the outcome of the first matching
\* rule of: complete-results content (0.95), face, COCO, scene sniffers (0.8),
\* the filename rules (0.7, 0.6, 0.5, 0.5), else unknown at 0.2.
C12_FirstMatchingRule ==
    (detected # None /\ JsonTyped(inputFile[1])) =>
        LET f == inputFile[1]
        IN  <<detected[1].type, detected[1].confidence>> =
                IF isValidCompleteResults(f) THEN <<"complete_results", 95>>
                ELSE SnifferThenNameRule(f)

\* C12, amended: as stated, with one more rule between the complete-results
\* content check and the face sniffer: a sample prefix that fails to parse
\* gives unknown at 0.0 before any sniffer or filename rule is consulted. A
\* sniffer match on a parsable sample beats every filename pattern, and of
\* several matching sniffers the earliest decides.
C12_FirstMatchingRuleAfterParse ==
    (detected # None /\ JsonTyped(inputFile[1])) =>
        LET f == inputFile[1]
            d == detected[1]
        IN  /\ <<d.type, d.confidence>> =
                    IF isValidCompleteResults(f) THEN <<"complete_results", 95>>
                    ELSE IF ~SamplePrefixParses(f) THEN <<"unknown", 0>>
                    ELSE SnifferThenNameRule(f)
            /\ d.pipeline = IF d.type = "unknown" THEN None ELSE Some(d.type)
            /\ (~isValidCompleteResults(f) /\ SamplePrefixParses(f)
                    /\ AnySnifferMatches(f))
                  => /\ d.confidence = 80
                     /\ isValidFaceAnalysis(f) => d.type = "face_analysis"
                     /\ (~isValidFaceAnalysis(f) /\ isValidCOCOPersonData(f))
                           => d.type = "person_tracking"

\* A file that all three sniffers accept and whose name matches a filename
\* rule of another category has been classified.
C12_Witness ==
    /\ detected # None
    /\ JsonTyped(inputFile[1])
    /\ isValidFaceAnalysis(inputFile[1])
    /\ isValidCOCOPersonData(inputFile[1])
    /\ isValidSceneDetection(inputFile[1])
    /\ "person" \in inputFile[1].marks
    /\ Is("face_analysis", 80)

\* C13: for a JSON-typed file that is not a valid bundle the classifier
\* always answers; the answer is unknown at 0.0 exactly when the sample prefix
\* fails to parse, whatever the sniffers and the name say, and unknown at 0.2
\* exactly when the prefix parses and no sniffer or filename rule matches.
C13_UnknownConfidences ==
    (inputFile # None /\ JsonTyped(inputFile[1])
        /\ ~isValidCompleteResults(inputFile[1])) =>
        LET f == inputFile[1]
        IN  /\ ENABLED DetectFileType \/ detected # None
            /\ detected # None =>
                  /\ Is("unknown", 0) <=> ~SamplePrefixParses(f)
                  /\ Is("unknown", 20) <=>
                        /\ SamplePrefixParses(f)
                        /\ ~AnySnifferMatches(f)
                        /\ ~AnyNameRuleMatches(f)
                  /\ detected[1].type = "unknown" =>
                        detected[1].confidence \in {0, 20}

\* A file named after a pipeline whose sample prefix does not parse has been
\* classified as unknown at 0.0.
C13_Witness ==
    /\ detected # None
    /\ JsonTyped(inputFile[1])
    /\ ~isValidCompleteResults(inputFile[1])
    /\ ~SamplePrefixParses(inputFile[1])
    /\ inputFile[1].content.json.kind = "array"
    /\ "person" \in inputFile[1].marks
    /\ Is("unknown", 0)


-----------------------------------------------------------------------------
(* More properties of mergeAnnotationData.                                   *)

Succeeded == pc = "done" /\ result # None

\* The files in the order their processing starts: completeResultsFile, then
\* the others in list order.
ProcessingOrder ==
    (IF completeResultsFile = None THEN <<>> ELSE completeResultsFile)
        \o SelectSeq([i \in 1..totalFiles |-> i], LAMBDA i : ~IsBundle(i))

\* C14: a successful merge of n files calls onProgress exactly n + 2 times:
\* once before each file (the bundle first, then the rest in list order), once
\* for the video-metadata stage, and last the completion tick; the completed
\* count never decreases, never exceeds the total of its own call, and equals
\* the total in the final call.
C14_ProgressCalls ==
    Succeeded =>
        LET calls == acc.progress
            n == totalFiles
        IN  /\ Len(calls) = n + 2
            /\ \A k \in 1..n :
                  /\ calls[k].stage =
                        [label |-> "Processing", file |-> ProcessingOrder[k]]
                  /\ calls[k].total = n
            /\ calls[n + 1].stage.label = "Extracting video metadata"
            /\ calls[n + 2].stage.label = "Merging complete"
            /\ \A k \in 1..(n + 1) : calls[k].progress <= calls[k + 1].progress
            /\ \A k \in 1..(n + 2) : calls[k].progress <= calls[k].total
            /\ calls[n + 2].progress = calls[n + 2].total

\* A merge has succeeded on a full-length list whose bundle is not its first
\* file and could not be extracted, with a second complete_results file.
C14_Witness ==
    /\ Succeeded
    /\ totalFiles = MaxFiles
    /\ completeResultsFile = Some(2)
    /\ Rejected(2)
    /\ detectedFiles[3].type = "complete_results"
    /\ acc.progress[totalFiles + 1].progress = totalFiles - 1


FilesOfType(t) == {i \in 1..totalFiles : detectedFiles[i].type = t}
Last(S) == CHOOSE i \in S : \A j \in S : j <= i

\* C17: of several video files the last in list order is the one probed and
\* named in video_info, and the earlier ones cause no warning; likewise the
\* record's audio_file is the last audio file, without warnings.
C17_LastMediaFileWins ==
    /\ probeOk # None => acc.videoFile = Some(Last(FilesOfType("video")))
    /\ Succeeded =>
          /\ Data.video_info.filename = Last(FilesOfType("video"))
          /\ IF FilesOfType("audio") = {}
             THEN "audio_file" \notin DOMAIN Data
             ELSE Data.audio_file = Last(FilesOfType("audio"))
          /\ \A i \in FilesOfType("video") \cup FilesOfType("audio") :
                WarningsFor(i) = 0

\* A merge of two video files and an audio file, the first file a video, has
\* returned.
C17_Witness ==
    /\ Succeeded
    /\ Cardinality(FilesOfType("video")) = 2
    /\ Cardinality(FilesOfType("audio")) = 1
    /\ detectedFiles[1].type = "video"
    /\ Data.video_info.filename > 1

Transcripts == {"speech_recognition", "speaker_diarization"}

\* C18: the parser of every speech_recognition or speaker_diarization file
\* is called exactly once when the loop reaches the file, with or without a
\* bundle and whatever came before, and every call that resolves pushes the
\* pipeline's name.
C18_TranscriptsAlwaysParsed ==
    \A t \in Transcripts :
        /\ \A i \in FilesOfType(t) :
              Count(acc.invoked, LAMBDA f : f = i) = IF i < idx THEN 1 ELSE 0
        /\ Count(acc.pipelinesFound, LAMBDA name : name = t) =
              Cardinality({i \in FilesOfType(t) : i < idx /\ Resolved(i)})

\* The loop has ended on a list with an extracted bundle and two
\* speech_recognition files: the first gave a non-empty transcript and the
\* second was parsed all the same.
C18_Witness ==
    /\ LoopFinished
    /\ BundleExtracted
    /\ Cardinality(FilesOfType("speech_recognition")) = 2
    /\ \A i \in FilesOfType("speech_recognition") : Resolved(i)
    /\ \E i \in FilesOfType("speech_recognition") :
          i < Last(FilesOfType("speech_recognition"))
            /\ Len(outcome[i][1].data) > 0


(***************************************************************************)
(* A complete_results.json upload, classified and merged with a video      *)
(* and a separate person_tracking file.                                    *)
(***************************************************************************)

MaxBundleFiles == 2

BundleFileLists ==
    UNION {{[i \in 1..n |-> [file |-> i, type |-> t[i]]] :
                t \in [1..n -> {"video", "complete_results", "person_tracking"}]} :
            n \in 0..MaxBundleFiles}

\* One section of pipeline_results with results of one of the lengths given;
\* its processing_time is missing (counted 0 by || 0) or time.
TimedSections(f, lengths, time) ==
    {NoSection}
        \cup {[present |-> TRUE, results |-> Payload(f, n), processing_time |-> pt] :
                n \in lengths, pt \in {0, time}}

\* The texts of a complete_results file f: unreadable, or a bundle whose
\* sections are there or not, with or without config and total_duration, and
\* with no or five person results.
TimedBundleContents(f) ==
    {[readable |-> FALSE, person |-> NoSection, face |-> NoSection,
      scene |-> NoSection, config |-> None, total_duration |-> None]}
        \cup [readable : {TRUE}, person : TimedSections(f, {0, 5}, 1),
              face : TimedSections(f, {0, 1}, 2),
              scene : TimedSections(f, {0, 1}, 4),
              config : {None, Some(f)}, total_duration : {None, Some(f)}]

HasRequiredFields(b) ==
    b.readable /\ b.config # None /\ b.total_duration # None

\* The File whose text is b, as the classifier sees it: complete_results.json,
\* with video_path and start_time, longer than the sample when it is a whole
\* bundle.
BundleAsFile(b) ==
    MakeFile("json", {"complete_results"}, "application/json",
        JsonContent(IF HasRequiredFields(b) THEN 6000 ELSE 500,
            JsonObject({"video_path", "start_time"}
                          \cup (IF b.readable THEN {"pipeline_results"} ELSE {})
                          \cup (IF b.config # None THEN {"config"} ELSE {}),
                       b.total_duration # None, NoField, NoField, NoField)))

BundleInit ==
    /\ detectedFiles \in BundleFileLists
    /\ bundleText \in BundleTexts(detectedFiles,
          [f \in 1..totalFiles |-> TimedBundleContents(f)])
    /\ MergeCalled
    /\ inputFile =
          IF bundleText = None THEN None ELSE Some(BundleAsFile(bundleText[1]))
    /\ detected = None
    /\ BatchIdle
    /\ ViewIdle
    /\ WizardIdle

BundleNext == Next \/ DetectFileType

SpecBundle == BundleInit /\ [][BundleNext]_vars

SectionTime(section) == IF section.present THEN section.processing_time ELSE 0
Metadata == Data.metadata

\* C15 as stated: in a returned record metadata.processing_config,
\* processing_time and total_duration are each populated exactly when a bundle
\* was present and extracted, and processing_time is then the sum of the
\* sections' processing_time, a missing one counting as zero.
C15_BundleFieldsIff ==
    Succeeded =>
        /\ Metadata.processing_config # None <=> BundleExtracted
        /\ Metadata.processing_time # None <=> BundleExtracted
        /\ Metadata.total_duration # None <=> BundleExtracted
        /\ BundleExtracted =>
              Metadata.processing_time =
                Some(SectionTime(Bundle.person) + SectionTime(Bundle.face)
                        + SectionTime(Bundle.scene))

\* C15, amended: processing_time is populated exactly when a bundle was
\* present and extracted, and is then the sum of the sections'
\* processing_time (missing counts as zero); processing_config and
\* total_duration are then whatever the bundle's config and total_duration
\* fields hold, so unpopulated when the bundle lacks them, and all three are
\* unpopulated without an extracted bundle.
C15_BundleFieldsCarried ==
    Succeeded =>
        /\ Metadata.processing_time # None <=> BundleExtracted
        /\ BundleExtracted =>
              /\ Metadata.processing_time =
                    Some(SectionTime(Bundle.person) + SectionTime(Bundle.face)
                            + SectionTime(Bundle.scene))
              /\ Metadata.processing_config = Bundle.config
              /\ Metadata.total_duration = Bundle.total_duration
        /\ ~BundleExtracted =>
              /\ Metadata.processing_config = None
              /\ Metadata.total_duration = None

\* A merge has returned after extracting a bundle without config whose face
\* section has no processing_time and whose other sections have one.
C15_Witness ==
    /\ Succeeded
    /\ BundleExtracted
    /\ Bundle.config = None
    /\ Bundle.total_duration # None
    /\ Bundle.face.present
    /\ Bundle.face.processing_time = 0
    /\ Metadata.processing_time = Some(5)

\* The bundle of the scenario: every required top-level field and five person
\* results.
ScenarioBundle ==
    /\ bundleText # None
    /\ HasRequiredFields(bundleText[1])
    /\ Len(bundleText[1].person.results) = 5

\* C16 as stated: when the input is the scenario's complete_results.json and
\* nothing else, classify gives complete_results at 0.95 and merge returns a
\* record whose person_tracking has length 5.
C16_BundleAlone ==
    (totalFiles = 1 /\ ScenarioBundle /\ Terminated /\ detected # None) =>
        /\ Is("complete_results", 95)
        /\ Succeeded
        /\ Len(Data.person_tracking) = 5

\* C16, amended: when the input is the scenario's complete_results.json and
\* a video file, classify gives complete_results at 0.95 for the bundle, and
\* merge returns, unless the video probe fails, a record whose person_tracking
\* has length 5.
C16_BundleWithVideo ==
    (totalFiles = 2 /\ HasType("video") /\ ScenarioBundle) =>
        /\ detected # None => Is("complete_results", 95)
        /\ Terminated => (Succeeded <=> probeOk = Some(TRUE))
        /\ Succeeded => Len(Data.person_tracking) = 5

\* The scenario's bundle has been classified and merged with a video.
C16_Witness ==
    /\ totalFiles = 2
    /\ HasType("video")
    /\ ScenarioBundle
    /\ detected # None
    /\ Succeeded
    /\ Len(Data.person_tracking) = 5


(***************************************************************************)
(* validateFileSet and getFilesSummary on one list of detected files.      *)
(***************************************************************************)

MaxClassified == 3

PipelineTypes ==
    {"person_tracking", "speech_recognition", "speaker_diarization",
     "scene_detection", "face_analysis", "complete_results"}

\* Outcomes of the classifier for every type, at high and low confidence,
\* and a person_tracking entry whose optional pipeline field was left out.
DetectedOutcomes ==
    {<<"video", None, 95>>, <<"audio", None, 95>>,
     <<"unknown", None, 0>>, <<"unknown", None, 20>>,
     <<"person_tracking", None, 50>>,
     <<"speech_recognition", Some("speech_recognition"), 30>>,
     <<"speaker_diarization", Some("speaker_diarization"), 90>>,
     <<"complete_results", Some("complete_results"), 70>>,
     <<"face_analysis", Some("face_analysis"), 80>>,
     <<"scene_detection", Some("scene_detection"), 50>>}

ClassifiedLists ==
    UNION {{[i \in 1..n |-> [file |-> i, type |-> o[i][1], pipeline |-> o[i][2],
                             confidence |-> o[i][3]]] :
                o \in [1..n -> DetectedOutcomes]} :
            n \in 0..MaxClassified}

\* validateFileSet that takes an audio file for pipeline data.
validateFileSet_AudioCounts(list) ==
    LET types == {list[i].type : i \in 1..Len(list)}
        noVideo == "video" \notin types
        hasPipelineData == types \cap (PipelineTypes \cup {"audio"}) # {}
        missing ==
            (IF noVideo THEN <<"Video file">> ELSE <<>>)
                \o (IF ~hasPipelineData THEN <<"Pipeline data">> ELSE <<>>)
        suggestions ==
            (IF noVideo THEN <<"Add a video file">> ELSE <<>>)
                \o (IF ~hasPipelineData
                    THEN <<"Add at least one annotation file">> ELSE <<>>)
    IN  [isValid |-> Len(missing) = 0, missing |-> missing,
         suggestions |-> suggestions]

validateFileSet(list) ==
    LET types == {list[i].type : i \in 1..Len(list)}
        noVideo == "video" \notin types
        hasPipelineData == types \cap PipelineTypes # {}
        missing ==
            (IF noVideo THEN <<"Video file">> ELSE <<>>)
                \o (IF ~hasPipelineData THEN <<"Pipeline data">> ELSE <<>>)
        suggestions ==
            (IF noVideo THEN <<"Add a video file">> ELSE <<>>)
                \o (IF ~hasPipelineData
                    THEN <<"Add at least one annotation file">> ELSE <<>>)
    IN  [isValid |-> Len(missing) = 0, missing |-> missing,
         suggestions |-> suggestions]

\* { name: detected.pipeline || detected.type, file, confidence }
SummaryEntry(d) ==
    [name |-> IF d.pipeline # None THEN d.pipeline[1] ELSE d.type,
     file |-> d.file, confidence |-> d.confidence]

\* SummaryStep without the complete_results case label.
SummaryStep_BundleDropped(sum, d) ==
    CASE d.type = "video" -> [sum EXCEPT !.video = Some(d.file)]
      [] d.type = "audio" -> [sum EXCEPT !.audio = Some(d.file)]
      [] d.type \in PipelineTypes \ {"complete_results"} ->
            [sum EXCEPT !.pipelines = Append(@, SummaryEntry(d))]
      [] d.type = "unknown" -> [sum EXCEPT !.unknown = Append(@, d.file)]
      [] OTHER -> sum

\* SummaryStep keeping the first video name it meets.
SummaryStep_FirstVideo(sum, d) ==
    CASE d.type = "video" ->
            IF sum.video = None THEN [sum EXCEPT !.video = Some(d.file)] ELSE sum
      [] d.type = "audio" -> [sum EXCEPT !.audio = Some(d.file)]
      [] d.type \in PipelineTypes ->
            [sum EXCEPT !.pipelines = Append(@, SummaryEntry(d))]
      [] d.type = "unknown" -> [sum EXCEPT !.unknown = Append(@, d.file)]
      [] OTHER -> sum

\* The switch of getFilesSummary on one element.
SummaryStep(sum, d) ==
    CASE d.type = "video" -> [sum EXCEPT !.video = Some(d.file)]
      [] d.type = "audio" -> [sum EXCEPT !.audio = Some(d.file)]
      [] d.type \in PipelineTypes ->
            [sum EXCEPT !.pipelines = Append(@, SummaryEntry(d))]
      [] d.type = "unknown" -> [sum EXCEPT !.unknown = Append(@, d.file)]
      [] OTHER -> sum

RECURSIVE SummaryLoop(_, _, _)
SummaryLoop(list, i, sum) ==
    IF i > Len(list) THEN sum
    ELSE SummaryLoop(list, i + 1, SummaryStep(sum, list[i]))

getFilesSummary(list) ==
    SummaryLoop(list, 1,
        [video |-> None, audio |-> None, pipelines |-> <<>>, unknown |-> <<>>])

ViewInit ==
    /\ classified \in ClassifiedLists
    /\ validation = None
    /\ summary = None
    /\ MergeIdle
    /\ BatchIdle
    /\ DetectIdle
    /\ WizardIdle

ValidateFileSet ==
    /\ validation = None
    /\ validation' = Some(validateFileSet(classified))
    /\ UNCHANGED <<classified, summary, notViewVars>>

GetFilesSummary ==
    /\ summary = None
    /\ summary' = Some(getFilesSummary(classified))
    /\ UNCHANGED <<classified, validation, notViewVars>>

ViewNext == ValidateFileSet \/ GetFilesSummary

SpecViews == ViewInit /\ [][ViewNext]_vars

ClassifiedOfType(types) ==
    {i \in 1..Len(classified) : classified[i].type \in types}

C19_Report ==
    validation # None =>
        LET v == validation[1]
            noVideo == ClassifiedOfType({"video"}) = {}
            noPipelineData == ClassifiedOfType(PipelineTypes) = {}
            Reported(item) == \E k \in 1..Len(v.missing) : v.missing[k] = item
        IN  /\ Reported("Video file") <=> noVideo
            /\ Reported("Pipeline data") <=> noPipelineData
            /\ Len(v.missing) =
                  (IF noVideo THEN 1 ELSE 0) + (IF noPipelineData THEN 1 ELSE 0)
            /\ Len(v.suggestions) = Len(v.missing)
            /\ NoDuplicates(v.suggestions)
            /\ v.isValid <=> v.missing = <<>>

\* C19: validateFileSet reports the video item missing exactly when no entry
\* is video-typed, the pipeline-data item exactly when no entry has one of the
\* six pipeline-bearing types, gives one suggestion per missing item, is valid
\* exactly when nothing is missing, and leaves its list as it was.
C19_ValidateFileSet ==
    []C19_Report /\ [][ValidateFileSet => classified' = classified]_vars

\* A list with an audio file and an unknown file only has been validated.
C19_Witness ==
    /\ validation # None
    /\ Len(classified) = 2
    /\ ClassifiedOfType({"audio"}) # {}
    /\ ClassifiedOfType({"unknown"}) # {}
    /\ Len(validation[1].suggestions) = 2
    /\ ~validation[1].isValid

C20_Listing ==
    summary # None =>
        LET sum == summary[1]
            listed == SelectSeq(classified, LAMBDA d : d.type \in PipelineTypes)
        IN  /\ Len(sum.pipelines) = Len(listed)
            /\ \A k \in 1..Len(listed) :
                  /\ sum.pipelines[k].file = listed[k].file
                  /\ sum.pipelines[k].confidence = listed[k].confidence
                  /\ sum.pipelines[k].name \in PipelineTypes
                  /\ sum.pipelines[k].name = listed[k].type
            /\ \A i \in ClassifiedOfType(PipelineTypes) :
                  Count(sum.pipelines, LAMBDA e : e.file = i) = 1
            /\ \A i \in 1..Len(classified) :
                  Count(sum.unknown, LAMBDA f : f = i) =
                    IF classified[i].type = "unknown" THEN 1 ELSE 0
            /\ Len(sum.unknown) = Cardinality(ClassifiedOfType({"unknown"}))

\* C20: getFilesSummary lists every file of a pipeline-bearing type,
\* complete_results included, exactly once in pipelines, in input order and
\* with its confidence, and every unknown file exactly once in unknown; its
\* input list stays as it was.
C20_GetFilesSummary ==
    []C20_Listing /\ [][GetFilesSummary => classified' = classified]_vars

\* A summary has been made of a low-confidence transcript, a file-name-only
\* bundle and an unknown file.
C20_Witness ==
    /\ summary # None
    /\ Len(classified) = 3
    /\ classified[1].type = "speech_recognition"
    /\ classified[1].confidence = 30
    /\ classified[2].type = "unknown"
    /\ classified[3].type = "complete_results"
    /\ classified[3].confidence = 70
    /\ Len(summary[1].pipelines) = 2


-----------------------------------------------------------------------------
(* Precedence among the files of one list in mergeAnnotationData.           *)

\* The types whose case tests slot.length === 0, and the slot of each.
GuardedTypes == {"person_tracking", "face_analysis", "scene_detection"}
SlotOf(t) ==
    CASE t = "person_tracking" -> "personTracking"
      [] t = "face_analysis" -> "faceAnalysis"
      [] t = "scene_detection" -> "sceneDetection"

First(S) == CHOOSE i \in S : \A j \in S : i <= j
Visited(t) == {i \in FilesOfType(t) : i < idx /\ ~IsBundle(i)}
ResolvedNonEmpty(i) == Resolved(i) /\ outcome[i][1].data # <<>>

\* C21 as stated: without a bundle, of two or more files of one of the types
\* person_tracking, face_analysis, scene_detection the first in list order
\* wins: its parser is the only one of the type called and the record's payload
\* is its result.
C21_FirstFileWins ==
    (Succeeded /\ completeResultsFile = None) =>
        \A t \in GuardedTypes :
            Cardinality(FilesOfType(t)) >= 2 =>
                LET f == First(FilesOfType(t))
                IN  /\ \A i \in FilesOfType(t) : Awaited(i) <=> i = f
                    /\ Resolved(f) => acc[SlotOf(t)] = outcome[f][1].data

\* C21, amended: without a bundle, among the files of one of these types the
\* first whose parser returns a non-empty array wins: every file of the type
\* before it is parsed (each rejecting or returning an empty array), no file
\* of the type after it is parsed, and the record's payload is its array; when
\* no parser returns a non-empty array all are called and the record has no
\* payload for the type.
C21_FirstNonEmptyWins ==
    completeResultsFile = None =>
        \A t \in GuardedTypes :
            LET winners == {i \in Visited(t) : ResolvedNonEmpty(i)}
            IN  /\ Cardinality(winners) <= 1
                /\ \A i \in Visited(t) :
                      Awaited(i) <=> \A w \in winners : i <= w
                /\ \A i \in Visited(t) :
                      Count(acc.invoked, LAMBDA f : f = i) =
                        IF Awaited(i) THEN 1 ELSE 0
                /\ acc[SlotOf(t)] =
                      IF winners = {} THEN <<>> ELSE outcome[First(winners)][1].data
                /\ Succeeded =>
                      IF winners = {} THEN t \notin DOMAIN Data
                      ELSE /\ t \in DOMAIN Data
                           /\ Data[t] = outcome[First(winners)][1].data

\* A merge without a bundle has returned where the first person_tracking
\* file gave an empty array and the second, parsed after it, a non-empty one.
C21_Witness ==
    /\ Succeeded
    /\ completeResultsFile = None
    /\ Cardinality(FilesOfType("person_tracking")) = 2
    /\ LET f == First(FilesOfType("person_tracking"))
           l == Last(FilesOfType("person_tracking"))
       IN  /\ Resolved(f) /\ outcome[f][1].data = <<>>
           /\ ResolvedNonEmpty(l)
           /\ Data.person_tracking = outcome[l][1].data


BundleRejected == \E i \in 1..totalFiles : IsBundle(i) /\ Rejected(i)
WithoutBundles == SelectSeq(detectedFiles, LAMBDA df : df.type # "complete_results")

\* C22: a failed extraction of the bundle adds exactly one warning, for the
\* bundle, and merge goes on as with no bundle at all: the three slots are
\* empty, no carried-over metadata is set, the bundle contributes no pipeline
\* name, and the separate person_tracking, face_analysis and scene_detection
\* files are parsed as they are in a list without the bundle.
C22_FailedBundleAsAbsent ==
    BundleRejected =>
        LET c == completeResultsFile[1]
        IN  /\ WarningsFor(c) = 1
            /\ \E k \in 1..Len(acc.warnings) :
                  acc.warnings[k] = [kind |-> "complete_results", file |-> c]
            /\ acc.processingConfig = None
            /\ acc.processingTime = None
            /\ acc.totalDuration = None
            /\ idx = 1 =>
                  /\ \A t \in GuardedTypes : acc[SlotOf(t)] = <<>>
                  /\ acc.pipelinesFound = <<>>
                  /\ Len(acc.warnings) = 1
            /\ \A t \in GuardedTypes :
                  Visited(t) # {} => Awaited(First(Visited(t)))
            /\ acc.pipelinesFound = FileNamesFrom(1)
            /\ LoopFinished =>
                  Accumulated(acc) = Accumulated(MergeLoop(WithoutBundles, outcome))
            /\ Succeeded =>
                  /\ Metadata.processing_config = None
                  /\ Metadata.processing_time = None
                  /\ Metadata.total_duration = None

\* A merge has returned whose bundle could not be extracted and whose
\* separate person_tracking file was parsed into the record.
C22_Witness ==
    /\ Succeeded
    /\ BundleRejected
    /\ \E i \in SeparateFiles("person_tracking") :
          /\ ResolvedNonEmpty(i)
          /\ Data.person_tracking = outcome[i][1].data
    /\ Len(Report.warnings) = 1


-----------------------------------------------------------------------------
(* The sniffers of detectJSONType on their own.                             *)

FirstElementHas(json, wanted) ==
    json.first = "object" /\ wanted \subseteq json.keys

\* C23: a JSON file whose top-level value is an array is face_analysis at
\* 0.8 only if element 0 has face_id and attributes, person_tracking at 0.8
\* only if element 0 has keypoints and bbox, and scene_detection at 0.8 only
\* if element 0 has start_time or startTime.
C23_SequenceNeedsKeys ==
    (detected # None /\ JsonTyped(inputFile[1])
        /\ inputFile[1].content.json.kind = "array") =>
        LET json == inputFile[1].content.json
        IN  /\ Is("face_analysis", 80) =>
                  FirstElementHas(json, {"face_id", "attributes"})
            /\ Is("person_tracking", 80) =>
                  FirstElementHas(json, {"keypoints", "bbox"})
            /\ Is("scene_detection", 80) =>
                  \/ FirstElementHas(json, {"start_time"})
                  \/ FirstElementHas(json, {"startTime"})


WholeJson == inputFile[1].content.json

\* C24 as stated: the complete-results sniffer matches exactly when the whole
\* content parses as JSON, video_path, pipeline_results, config and start_time
\* are all present and total_duration is not undefined, whatever the values.
C24_MatchesOnPresence ==
    (detected # None /\ JsonTyped(inputFile[1])) =>
        (Is("complete_results", 95) <=>
            /\ WholeJson.kind = "object"
            /\ RequiredFields \subseteq WholeJson.present
            /\ WholeJson.total_duration)

\* C24, amended: the complete-results sniffer matches exactly when the whole
\* content parses as JSON, video_path, pipeline_results, config and start_time
\* all hold truthy values (not 0, "", null or false) and total_duration is not
\* undefined; the length of the file plays no part.
C24_MatchesOnTruthy ==
    (detected # None /\ JsonTyped(inputFile[1])) =>
        (Is("complete_results", 95) <=>
            /\ WholeJson.kind = "object"
            /\ RequiredFields \subseteq WholeJson.truthy
            /\ WholeJson.total_duration)

\* A short complete_results.json with every required field, start_time being
\* 0, has been classified by its name only.
C24_Witness ==
    /\ detected # None
    /\ JsonTyped(inputFile[1])
    /\ RequiredFields \subseteq WholeJson.present
    /\ "start_time" \notin WholeJson.truthy
    /\ WholeJson.total_duration
    /\ "complete_results" \in inputFile[1].marks
    /\ Is("complete_results", 70)


-----------------------------------------------------------------------------
(* The record and the report of mergeAnnotationData.                        *)

PayloadKeys == DOMAIN Data \cap PipelineKeys
ListedPipelines ==
    {Metadata.pipelines[k] : k \in 1..Len(Metadata.pipelines)}

\* C25 as stated: in a returned record the pipeline payload keys present are
\* exactly the names in metadata.pipelines.
C25_ListedIffPayload ==
    Succeeded => PayloadKeys = ListedPipelines

\* C25, amended: every pipeline payload key present in a returned record is
\* named in metadata.pipelines; a name is listed without a payload exactly
\* when a parser of a file of that type returned an empty array and no
\* non-empty array is held for the type at the end.
C25_PayloadIsListed ==
    Succeeded =>
        /\ PayloadKeys \subseteq ListedPipelines
        /\ ListedPipelines \subseteq PipelineKeys
        /\ \A t \in ListedPipelines \ PayloadKeys :
              \E i \in SeparateFiles(t) : Resolved(i) /\ outcome[i][1].data = <<>>
        /\ \A t \in PipelineKeys :
              t \in ListedPipelines <=>
                \/ \E i \in SeparateFiles(t) : Resolved(i)
                \/ t \in {BundleNames[k] : k \in 1..Len(BundleNames)}

\* A merge has returned a record that lists speech_recognition and carries
\* no speech_recognition payload, next to a pipeline that has both.
C25_Witness ==
    /\ Succeeded
    /\ "speech_recognition" \in ListedPipelines \ PayloadKeys
    /\ "person_tracking" \in ListedPipelines \cap PayloadKeys


\* C26: on every successful merge the report's filesProcessed is the number
\* of files passed in, and the completed count of the progress call made
\* before a file is the number of files visited before it.
C26_AllFilesCounted ==
    Succeeded =>
        /\ Report.filesProcessed = totalFiles
        /\ \A k \in 1..totalFiles : acc.progress[k].progress = k - 1


\* An iteration of the loop on a complete_results file other than
\* completeResultsFile changes the progress calls and processedFiles only.
C27_LaterBundleStep ==
    (/\ pc = "loop" /\ idx <= totalFiles /\ idx' = idx + 1
     /\ detectedFiles[idx].type = "complete_results" /\ ~IsBundle(idx)) =>
        /\ Accumulated(acc') = Accumulated(acc)
        /\ acc'.warnings = acc.warnings
        /\ acc'.invoked = acc.invoked
        /\ outcome' = outcome
        /\ acc'.processedFiles = acc.processedFiles + 1
        /\ Len(acc'.progress) = Len(acc.progress) + 1

C27_OnlyFirstExtracted ==
    \A i \in FilesOfType("complete_results") :
        /\ Count(acc.invoked, LAMBDA f : f = i) =
              IF i = First(FilesOfType("complete_results")) /\ pc # "start"
              THEN 1 ELSE 0
        /\ i # First(FilesOfType("complete_results")) =>
              ~Awaited(i) /\ WarningsFor(i) = 0

\* C27: of several complete_results files only the first in list order is
\* extracted; each other one is visited by the loop without an extractor
\* call, a warning or a pipeline name, and without a change to a pipeline slot
\* or to the carried-over metadata.
C27_LaterBundlesIgnored == [][C27_LaterBundleStep]_vars /\ []C27_OnlyFirstExtracted

\* The loop has passed a second complete_results file after the first was
\* extracted with person results.
C27_Witness ==
    /\ LoopFinished
    /\ Cardinality(FilesOfType("complete_results")) = 2
    /\ BundleExtracted
    /\ Bundle.person.results # <<>>
    /\ acc.processedFiles = totalFiles
    /\ \E k \in 1..Len(acc.progress) :
          acc.progress[k].stage.file = Last(FilesOfType("complete_results"))


(***************************************************************************)
(* validateFileSet, getFilesSummary and mergeAnnotationData on the same    *)
(* list of detected files.                                                 *)
(***************************************************************************)

MaxSharedFiles == 2

SharedOutcomes ==
    {<<"video", None, 95>>, <<"unknown", None, 0>>,
     <<"speech_recognition", Some("speech_recognition"), 30>>,
     <<"complete_results", Some("complete_results"), 70>>}

SharedLists ==
    UNION {{[i \in 1..n |-> [file |-> i, type |-> o[i][1], pipeline |-> o[i][2],
                             confidence |-> o[i][3]]] :
                o \in [1..n -> SharedOutcomes]} :
            n \in 0..MaxSharedFiles}

\* The two fields of a DetectedFile that mergeAnnotationData reads.
AsMergeInput(list) ==
    [i \in 1..Len(list) |-> [file |-> list[i].file, type |-> list[i].type]]

SharedInit ==
    /\ classified \in SharedLists
    /\ detectedFiles = AsMergeInput(classified)
    /\ bundleText \in BundleTexts(detectedFiles,
          [f \in 1..totalFiles |-> BundleContents(f)])
    /\ MergeCalled
    /\ validation = None
    /\ summary = None
    /\ BatchIdle
    /\ DetectIdle
    /\ WizardIdle

SharedNext == Next \/ ValidateFileSet \/ GetFilesSummary

SpecShared == SharedInit /\ [][SharedNext]_vars

VideoReportedMissing ==
    \E k \in 1..Len(validation[1].missing) :
        validation[1].missing[k] = "Video file"

\* C28: on one list, validateFileSet reports the video item missing exactly
\* when mergeAnnotationData rejects with the missing-video error, and the video
\* name in the summary is the name of the video file that merge probes.
C28_ViewsAgreeWithMerge ==
    /\ (validation # None /\ Terminated) =>
          (VideoReportedMissing <=> error = Some(NoVideoError))
    /\ (summary # None /\ Terminated) =>
          (summary[1].video = None <=> error = Some(NoVideoError))
    /\ (summary # None /\ probeOk # None) => summary[1].video = acc.videoFile
    /\ (summary # None /\ Succeeded) =>
          summary[1].video = Some(Data.video_info.filename)

\* Validation, summary and a successful merge have all been made of a list of
\* two videos.
C28_Witness ==
    /\ validation # None
    /\ summary # None
    /\ Succeeded
    /\ Cardinality(FilesOfType("video")) = 2
    /\ ~VideoReportedMissing
    /\ summary[1].video = Some(2)


\* ---------------------------------------------------------------------
\* The job-creation wizard (CreateNewJob).  The configuration text area
\* only replaces config, which no step, guard or request count reads, so
\* it is left out; submitJob's pipelines and config arguments are the
\* values captured with the files and are not logged.
\* ---------------------------------------------------------------------

\* The largest number of files the selection holds.
MaxSelected == 2

\* The videos the file picker offers.
VideoNames == {"a.mp4", "b.mp4"}

\* The lists a file picker's change event can carry.
PickedLists ==
    UNION {[1..n -> VideoNames] : n \in 1..MaxSelected}

\* The component is mounted: navigate() has not replaced it.
Mounted == redirect # "navigated"

\* canProceed with every step allowed.
canProceed_Always == TRUE

\* canProceed()
canProceed ==
    CASE currentStep = 1 -> Len(selectedFiles) > 0
      [] currentStep = 2 -> Len(selectedPipelines) > 0
      [] currentStep = 3 -> TRUE
      [] currentStep = 4 -> TRUE
      [] OTHER -> FALSE

\* array.filter((_, i) => i !== index)
RemoveAt(list, index) ==
    [i \in 1..(Len(list) - 1) |-> IF i < index THEN list[i] ELSE list[i + 1]]

\* array.filter(p => p !== name)
Without(list, name) ==
    SelectSeq(list, LAMBDA p : p # name)

\* array.includes(name)
Includes(list, name) ==
    \E i \in 1..Len(list) : list[i] = name

\* The Next button: rendered on every step but the last, disabled
\* unless canProceed().
nextStep ==
    /\ Mounted
    /\ currentStep # NumSteps
    /\ canProceed
    /\ currentStep' = IF currentStep < NumSteps THEN currentStep + 1 ELSE currentStep
    /\ UNCHANGED <<selectedFiles, selectedPipelines, isSubmitting, submitError,
                   submitSuccess, run, requests, redirect>>
    /\ UNCHANGED notWizardVars

\* The Previous button: disabled on the first step only.
prevStep ==
    /\ Mounted
    /\ currentStep # 1
    /\ currentStep' = IF currentStep > 1 THEN currentStep - 1 ELSE currentStep
    /\ UNCHANGED <<selectedFiles, selectedPipelines, isSubmitting, submitError,
                   submitSuccess, run, requests, redirect>>
    /\ UNCHANGED notWizardVars

\* VideoUploadStep (rendered on step 1): the picker's files are appended.
handleFileChange ==
    /\ Mounted
    /\ currentStep = 1
    /\ \E added \in PickedLists :
        /\ Len(selectedFiles) + Len(added) <= MaxSelected
        /\ selectedFiles' = selectedFiles \o added
    /\ UNCHANGED <<currentStep, selectedPipelines, isSubmitting, submitError,
                   submitSuccess, run, requests, redirect>>
    /\ UNCHANGED notWizardVars

\* VideoUploadStep: the Remove button of one listed file.
removeFile ==
    /\ Mounted
    /\ currentStep = 1
    /\ \E index \in 1..Len(selectedFiles) :
        selectedFiles' = RemoveAt(selectedFiles, index)
    /\ UNCHANGED <<currentStep, selectedPipelines, isSubmitting, submitError,
                   submitSuccess, run, requests, redirect>>
    /\ UNCHANGED notWizardVars

\* PipelineSelectionStep (rendered on step 2): a pipeline's checkbox.
togglePipeline ==
    /\ Mounted
    /\ currentStep = 2
    /\ \E i \in 1..Len(AvailablePipelines) :
        LET name == AvailablePipelines[i] IN
        selectedPipelines' =
            IF Includes(selectedPipelines, name)
            THEN Without(selectedPipelines, name)
            ELSE Append(selectedPipelines, name)
    /\ UNCHANGED <<currentStep, selectedFiles, isSubmitting, submitError,
                   submitSuccess, run, requests, redirect>>
    /\ UNCHANGED notWizardVars

\* setSubmitError("No videos selected")
NoVideosSelected == Some([kind |-> "No videos selected", failed |-> <<>>])

\* setSubmitError(`Failed to submit ${errors.length} job(s): ...`)
FailedToSubmit(errors) == Some([kind |-> "Failed to submit", failed |-> errors])

\* The Submit button (rendered on the last step, disabled while
\* submitting or unless canProceed()): handleSubmitJobs up to its first
\* await.
handleSubmitJobs ==
    /\ Mounted
    /\ currentStep = NumSteps
    /\ ~isSubmitting
    /\ canProceed
    /\ IF Len(selectedFiles) = 0
       THEN /\ submitError' = NoVideosSelected
            /\ UNCHANGED <<isSubmitting, submitSuccess, run, requests>>
       ELSE /\ isSubmitting' = TRUE
            /\ submitError' = None
            /\ submitSuccess' = <<>>
            /\ run' = [pc |-> "awaiting", files |-> selectedFiles, pos |-> 1,
                       jobIds |-> <<>>, errors |-> <<>>, scheduled |-> FALSE]
            /\ requests' = <<selectedFiles[1]>>
    /\ UNCHANGED <<currentStep, selectedFiles, selectedPipelines, redirect>>
    /\ UNCHANGED notWizardVars

\* The loop with no try around the request: a rejection ends it.
Settle_StopAtFailure(r, ok) ==
    LET pushed == IF ok
                  THEN [r EXCEPT !.jobIds = Append(@, r.pos)]
                  ELSE [r EXCEPT !.errors = Append(@, r.files[r.pos])]
    IN IF ok /\ r.pos < Len(r.files)
       THEN [pushed EXCEPT !.pos = r.pos + 1]
       ELSE [pushed EXCEPT !.pc = "ended"]

\* One request settles: jobIds.push(response.id) or errors.push(...),
\* then the loop moves to the next file or ends.  A job id is written as
\* the position of its request.
Settle(r, ok) ==
    LET pushed == IF ok
                  THEN [r EXCEPT !.jobIds = Append(@, r.pos)]
                  ELSE [r EXCEPT !.errors = Append(@, r.files[r.pos])]
    IN IF r.pos < Len(r.files)
       THEN [pushed EXCEPT !.pos = r.pos + 1]
       ELSE [pushed EXCEPT !.pc = "ended"]

\* handleSubmitJobs from one await to the next, or to its end: the next
\* request, or the statements after the loop and the finally block.  The
\* setters of an unmounted component are written as applied.
RequestSettles ==
    /\ run.pc = "awaiting"
    /\ \E ok \in BOOLEAN :
        LET next == Settle(run, ok)
            allOk == Len(next.jobIds) > 0 /\ Len(next.errors) = 0
        IN IF next.pc = "awaiting"
           THEN /\ run' = next
                /\ requests' = Append(requests, next.files[next.pos])
                /\ UNCHANGED <<isSubmitting, submitError, submitSuccess, redirect>>
           ELSE /\ run' = [next EXCEPT !.scheduled = allOk]
                /\ requests' = requests
                /\ submitSuccess' =
                     IF Len(next.jobIds) > 0 THEN next.jobIds ELSE submitSuccess
                /\ redirect' =
                     IF allOk /\ redirect = "none" THEN "scheduled" ELSE redirect
                /\ submitError' =
                     IF Len(next.errors) > 0
                     THEN FailedToSubmit(next.errors)
                     ELSE submitError
                /\ isSubmitting' = FALSE
    /\ UNCHANGED <<currentStep, selectedFiles, selectedPipelines>>
    /\ UNCHANGED notWizardVars

\* The two-second timer: navigate('/create/jobs').
TimerFires ==
    /\ redirect = "scheduled"
    /\ redirect' = "navigated"
    /\ UNCHANGED <<currentStep, selectedFiles, selectedPipelines, isSubmitting,
                   submitError, submitSuccess, run, requests>>
    /\ UNCHANGED notWizardVars

WizardInit ==
    /\ WizardIdle
    /\ MergeIdle
    /\ BatchIdle
    /\ DetectIdle
    /\ ViewIdle

WizardNext ==
    \/ nextStep
    \/ prevStep
    \/ handleFileChange
    \/ removeFile
    \/ togglePipeline
    \/ handleSubmitJobs
    \/ RequestSettles
    \/ TimerFires

SpecWizard == WizardInit /\ [][WizardNext]_vars

\* C29: whatever the Next, Previous, add-file, remove-file and
\* toggle-pipeline actions taken, the step is one of 1..4, a step past the
\* first has a file selected, a step past the second has a pipeline
\* selected, and no submission ends in the no-videos-selected error.
C29_StepsImplySelections ==
    /\ currentStep \in 1..NumSteps
    /\ (currentStep >= 2 => Len(selectedFiles) >= 1)
    /\ (currentStep >= 3 => Len(selectedPipelines) >= 1)
    /\ submitError # NoVideosSelected

\* A submission is under way on the last step after the pipelines were
\* changed on the way.
C29_Witness ==
    /\ currentStep = NumSteps
    /\ run.pc = "awaiting"
    /\ Len(selectedFiles) = MaxSelected
    /\ selectedPipelines # AvailablePipelines

\* The requests of the run that have settled.
Settled == Len(run.jobIds) + Len(run.errors)

\* C30: one run of the submission over its k files requests the files in
\* list order, each once and one at a time, a failure not stopping the
\* later requests; at its end the submitting flag is false, the job ids
\* and the errors number k together, and the redirect is scheduled only
\* if no request failed.
C30_OneRequestPerFile ==
    /\ requests = SubSeq(run.files, 1, Len(requests))
    /\ (run.pc = "awaiting" => isSubmitting /\ Len(requests) = Settled + 1)
    /\ (run.pc = "ended" =>
          /\ requests = run.files
          /\ ~isSubmitting
          /\ Settled = Len(run.files)
          /\ (run.scheduled => run.errors = <<>>))

\* A run has ended whose first request failed and whose last succeeded.
C30_Witness ==
    /\ run.pc = "ended"
    /\ Len(run.files) = MaxSelected
    /\ run.errors = <<run.files[1]>>
    /\ run.jobIds # <<>>
    /\ requests = run.files
====
